---- MODULE Spec2Model ----
(***************************************************************************)
(* Model of the ai-news-bot candidate pipeline:                            *)
(*   src/gnews_client.py  collect_multi_category_articles (aggregation and *)
(*                        within-batch multi-signal dedup)                 *)
(*   src/main.py          history dedup, content fetch, ranking response   *)
(*                        parsing, rate-limited summaries, run driver      *)
(*                                                                         *)
(* Strings whose characters matter (URL paths, titles) are sequences of    *)
(* one-character strings.  A URL is the record of its components, as       *)
(* urlparse splits it.                                                     *)
(***************************************************************************)
EXTENDS Integers, Sequences, FiniteSets, TLC

VARIABLES
    \* ---- collect_multi_category_articles (gnews_client.py)
    aggPc,                      \* next section of the function
    preferences,                \* the preferences argument
    all_articles,               \* accepted articles, in order
    existing_urls,
    existing_url_paths,
    existing_title_prefixes,
    rejected,                   \* raw articles that were not accepted (history)
    gnews_requests,             \* the category of each GNews request issued (history)
    \* ---- parse_filtered_articles (main.py)
    parsePc,
    gemini_response,            \* the ranking response, line by line
    original_articles,
    selected,                   \* the returned list
    \* ---- generate_summaries (main.py)
    summPc,
    summ_articles,              \* the articles argument
    summ_i,                     \* the loop index i
    rate_limit,
    results,
    pauses,                     \* requests issued before each 60 s wait (history)
    \* ---- run_candidate_mode / collect_candidates (main.py)
    runPc,
    env,                        \* which credentials the environment holds
    store,                      \* the documents of the GitHub repository
    run_preferences,            \* preferences, once loaded
    articles,                   \* the local "articles" of collect_candidates
    removed,                    \* dropped by the history dedup (history)
    fetch_failed,               \* articles whose content fetch failed (history)
    run_selected,               \* the local "selected" of collect_candidates
    ranked,                     \* what parse_filtered_articles returned (history)
    stages,                     \* stages invoked so far, with what each yielded (history)
    effects,                    \* requests sent to the store and the services (history)
    run_result,                 \* the (success, message) pair returned
    \* ---- run_news_bot (main.py), the legacy mode
    legacyPc,
    legacy_env,                 \* which credentials the environment holds
    scheduled,                  \* the categories that run on this date
    category_i,                 \* position in the categories dict
    news_content,               \* what collect_news returned
    saved,                      \* the local "results": files pushed so far
    legacy_effects,             \* requests sent to the store and the services (history)
    legacy_result,              \* the (success, message) pair returned
    \* ---- push_to_github (main.py)
    pushPc,
    push_token,                 \* whether GITHUB_TOKEN is set
    push_existing,              \* the document the store holds under file_path
    push_content,               \* the content argument
    push_calls,                 \* calls of the contents API, in order (history)
    push_raised,                \* whether an exception left the function
    push_document,              \* the document under file_path afterwards
    \* ---- run_bot (app.py)
    token_configured,           \* whether GITHUB_TOKEN is set in the environment
    threads,                    \* the threads started, each "running" or "finished"
    http_responses,             \* the HTTP responses given so far (history)
    \* ---- collect_multi_category_articles on one batch of raw candidates
    batchPc,
    raw_batch,                  \* the raw candidates, in the order the requests return them
    cuts,                       \* where the 2nd, 3rd and 4th response start
    survivors,                  \* the returned list
    \* ---- get_gnews_filtering_prompt (main.py), as collect_candidates calls it
    promptPc,
    prompt_preferences,         \* the preferences the run loaded
    prompt,                     \* the sections of the ranking request
    \* ---- main and scheduled_main (main.py)
    trigger_count,              \* invocations of main and scheduled_main so far
    runs_started,               \* pipeline runs started so far, by any entry point
    last_trigger,               \* the latest invocation of main or scheduled_main
    \* ---- the preference update (described in the specification, section 4.3)
    selection_history,          \* the selections recorded so far, oldest first
    learning_phase,             \* the phase stored with the preferences
    \* ---- the two deduplicators on a pair of candidates
    pairPc,
    first_article,              \* the candidate seen first (accepted, or in the history)
    second_article,             \* the candidate checked against it
    batch_survivors,            \* what the within-batch deduplicator keeps of the pair
    history_duplicate,          \* _is_duplicate(second) against a history holding the first
    \* ---- collect_site_articles (site_scraper.py)
    sitePc,
    site_preferences,           \* the preferences argument
    site_total,                 \* the total_articles argument
    scraped,                    \* what the sites returned, in completion order
    site_result,                \* the returned list
    \* ---- fetch_article_contents (main.py), task by task
    fetchPc,
    fetch_input,                \* the articles argument
    task_queue,                 \* the work queue of the executor: indices into fetch_input
    tasks,                      \* per article: its future, the worker running it, the workers that ran it
    fetch_results,              \* results, in the order the futures were collected
    \* ---- collect_multi_category_articles, candidate by candidate
    trail_input,                \* the candidates of one call, in the order the loops see them
    trail_i,                    \* the next candidate
    trail_state,                \* all_articles and the seen-sets
    verdicts,                   \* per candidate seen so far: what the loop did with it
    \* ---- two calls of push_to_github for one path
    race_store,                 \* the document under the path (Absent: none)
    race_pc,                    \* per call: its next step
    race_sha,                   \* per call: the sha its lookup returned
    race_content,               \* per call: the content argument
    race_result,                \* per call: "ok" (returned True) or "raised"
    race_overlap                \* a lookup happened between the other call's lookup and write


aggVars == <<aggPc, preferences, all_articles, existing_urls,
             existing_url_paths, existing_title_prefixes, rejected, gnews_requests>>

parseVars == <<parsePc, gemini_response, original_articles, selected>>

summVars == <<summPc, summ_articles, summ_i, rate_limit, results, pauses>>

runVars == <<runPc, env, store, run_preferences, articles, removed, fetch_failed,
             run_selected, ranked, stages, effects, run_result>>

legacyVars == <<legacyPc, legacy_env, scheduled, category_i, news_content, saved,
                legacy_effects, legacy_result>>

pushVars == <<pushPc, push_token, push_existing, push_content, push_calls,
              push_raised, push_document>>

appVars == <<token_configured, threads, http_responses>>

batchVars == <<batchPc, raw_batch, cuts, survivors>>

promptVars == <<promptPc, prompt_preferences, prompt>>

triggerVars == <<trigger_count, runs_started, last_trigger>>

phaseVars == <<selection_history, learning_phase>>

pairVars == <<pairPc, first_article, second_article, batch_survivors,
    history_duplicate>>

siteVars == <<sitePc, site_preferences, site_total, scraped, site_result>>

fetchVars == <<fetchPc, fetch_input, task_queue, tasks, fetch_results>>

trailVars == <<trail_input, trail_i, trail_state, verdicts>>

raceVars == <<race_store, race_pc, race_sha, race_content, race_result,
    race_overlap>>

vars == <<aggVars, parseVars, summVars, runVars, legacyVars, pushVars, appVars,
    batchVars, promptVars, triggerVars, phaseVars, pairVars, siteVars, fetchVars,
    trailVars, raceVars>>

\* what each function leaves alone
notAgg == <<parseVars, summVars, runVars, legacyVars, pushVars, appVars, batchVars,
    promptVars, triggerVars, phaseVars, pairVars, siteVars, fetchVars, trailVars,
    raceVars>>
notParse == <<aggVars, summVars, runVars, legacyVars, pushVars, appVars, batchVars,
    promptVars, triggerVars, phaseVars, pairVars, siteVars, fetchVars, trailVars,
    raceVars>>
notSumm == <<aggVars, parseVars, runVars, legacyVars, pushVars, appVars, batchVars,
    promptVars, triggerVars, phaseVars, pairVars, siteVars, fetchVars, trailVars,
    raceVars>>
notRun == <<aggVars, parseVars, summVars, legacyVars, pushVars, appVars, batchVars,
    promptVars, triggerVars, phaseVars, pairVars, siteVars, fetchVars, trailVars,
    raceVars>>
notLegacy == <<aggVars, parseVars, summVars, runVars, pushVars, appVars, batchVars,
    promptVars, triggerVars, phaseVars, pairVars, siteVars, fetchVars, trailVars,
    raceVars>>
notPush == <<aggVars, parseVars, summVars, runVars, legacyVars, appVars, batchVars,
    promptVars, triggerVars, phaseVars, pairVars, siteVars, fetchVars, trailVars,
    raceVars>>
notApp == <<aggVars, parseVars, summVars, runVars, legacyVars, pushVars, batchVars,
    promptVars, triggerVars, phaseVars, pairVars, siteVars, fetchVars, trailVars,
    raceVars>>
notBatch == <<aggVars, parseVars, summVars, runVars, legacyVars, pushVars, appVars,
    promptVars, triggerVars, phaseVars, pairVars, siteVars, fetchVars, trailVars,
    raceVars>>
notPrompt == <<aggVars, parseVars, summVars, runVars, legacyVars, pushVars,
    appVars, batchVars, triggerVars, phaseVars, pairVars, siteVars, fetchVars,
    trailVars, raceVars>>
notTrigger == <<aggVars, parseVars, summVars, runVars, legacyVars, pushVars,
    appVars, batchVars, promptVars, phaseVars, pairVars, siteVars, fetchVars,
    trailVars, raceVars>>
notPhase == <<aggVars, parseVars, summVars, runVars, legacyVars, pushVars, appVars,
    batchVars, promptVars, triggerVars, pairVars, siteVars, fetchVars, trailVars,
    raceVars>>
notPair == <<aggVars, parseVars, summVars, runVars, legacyVars, pushVars, appVars,
    batchVars, promptVars, triggerVars, phaseVars, siteVars, fetchVars, trailVars,
    raceVars>>
notSite == <<aggVars, parseVars, summVars, runVars, legacyVars, pushVars, appVars,
    batchVars, promptVars, triggerVars, phaseVars, pairVars, fetchVars, trailVars,
    raceVars>>
notFetch == <<aggVars, parseVars, summVars, runVars, legacyVars, pushVars, appVars,
    batchVars, promptVars, triggerVars, phaseVars, pairVars, siteVars, trailVars,
    raceVars>>
notTrail == <<aggVars, parseVars, summVars, runVars, legacyVars, pushVars, appVars,
    batchVars, promptVars, triggerVars, phaseVars, pairVars, siteVars, fetchVars,
    raceVars>>
notRace == <<aggVars, parseVars, summVars, runVars, legacyVars, pushVars, appVars,
    batchVars, promptVars, triggerVars, phaseVars, pairVars, siteVars, fetchVars,
    trailVars>>

----------------------------------------------------------------------------
(* Bounds of the model *)

\* articles one GNews request returns at most
MaxFetch == 2

(* Program constants *)

\* gnews_client.py:206  len(path) > 5
MinPathLen == 5
\* gnews_client.py:208, main.py:707  title[:20]
TitlePrefixLen == 20
\* main.py:828  total_articles=30
TotalArticles == 30

----------------------------------------------------------------------------
(* Strings *)

Str(n, c) == [i \in 1..n |-> c]

RECURSIVE RStripChar(_, _)
RStripChar(s, c) ==
    IF Len(s) > 0 /\ s[Len(s)] = c
    THEN RStripChar(SubSeq(s, 1, Len(s) - 1), c)
    ELSE s

RECURSIVE LStripChar(_, _)
LStripChar(s, c) ==
    IF Len(s) > 0 /\ s[1] = c
    THEN LStripChar(SubSeq(s, 2, Len(s)), c)
    ELSE s

\* str.strip()
Strip(s) == LStripChar(RStripChar(s, " "), " ")

\* s[:n]
Slice(s, n) == SubSeq(s, 1, IF Len(s) < n THEN Len(s) ELSE n)

SeqsUpTo(S, n) == UNION {[1..k -> S] : k \in 0..n}

Minimum(a, b) == IF a < b THEN a ELSE b

Range(s) == {s[i] : i \in 1..Len(s)}

----------------------------------------------------------------------------
(* URLs, titles and the raw articles the sources return *)

Url(dom, path) == [dom |-> dom, path |-> path, query |-> <<>>]

LongPath == <<"/", "n", "e", "w", "s", "/", "1">>
LongPathSlash == LongPath \o <<"/">>
OtherPath == <<"/", "n", "e", "w", "s", "/", "2">>
ShortPath == <<"/", "a">>

TitleA == Str(20, "x") \o <<"A">>
TitleB == <<" ">> \o Str(20, "x") \o <<"B">>
TitleC == <<"c", " ">>
TitleE == <<"e">>
TitleF == <<"f">>
NoTitle == <<" ">>

Raw(url, title, words) == [url |-> url, title |-> title, words |-> words]

\* words: which filter-word families occur in lower(title + " " + description)
RawArticles ==
    { Raw(Url("a.com", LongPath), TitleA, {"finance"}),
      \* same path on another domain (trailing slash), other title
      Raw(Url("b.com", LongPathSlash), TitleC, {"politics"}),
      \* same first 20 title characters, other URL and path
      Raw(Url("c.com", OtherPath), TitleB, {"finance", "politics"}),
      \* a short path, blank title
      Raw(Url("a.com", ShortPath), NoTitle, {}),
      \* the same short path on another domain
      Raw(Url("b.com", ShortPath), TitleE, {"finance"}),
      \* the first URL again under another title
      Raw(Url("a.com", LongPath), TitleF, {"politics"}) }

\* what one GNews request may return
Responses == SeqsUpTo(RawArticles, MaxFetch)

----------------------------------------------------------------------------
(* gnews_client.py: helpers of collect_multi_category_articles *)

\* _url_path
UrlPath(url) == RStripChar(url.path, "/")

\* article.get("title", "").strip()[:20].strip()
SeenTitle(title) == Strip(Slice(Strip(title), TitlePrefixLen))

IsSeen_UrlOnly(article, urls, paths, titles) == article.url \in urls

IsSeen_NoTitleCheck(article, urls, paths, titles) ==
    \/ article.url \in urls
    \/ LET path == UrlPath(article.url)
       IN  path # <<>> /\ Len(path) > MinPathLen /\ path \in paths

\* _is_seen
IsSeen(article, urls, paths, titles) ==
    \/ article.url \in urls
    \/ LET path == UrlPath(article.url)
       IN  path # <<>> /\ Len(path) > MinPathLen /\ path \in paths
    \/ LET title == SeenTitle(article.title)
       IN  title # <<>> /\ title \in titles

\* the dedup state threaded through the loops
DedupState(all, urls, paths, titles, rej) ==
    [all |-> all, urls |-> urls, paths |-> paths, titles |-> titles, rej |-> rej]

\* _mark_seen, then a["category"] = ..., all_articles.append(a)
Accept(article, category, st) ==
    LET title == SeenTitle(article.title)
    IN  [st EXCEPT
            !.urls = @ \cup {article.url},
            !.paths = @ \cup {UrlPath(article.url)},
            !.titles = IF title # <<>> THEN @ \cup {title} ELSE @,
            !.all = Append(@, [url |-> article.url, title |-> article.title,
                               words |-> article.words, category |-> category])]

Reject_MarksSeen(article, st) ==
    [st EXCEPT !.rej = @ \cup {article},
               !.urls = @ \cup {article.url},
               !.paths = @ \cup {UrlPath(article.url)},
               !.titles = IF SeenTitle(article.title) # <<>>
                          THEN @ \cup {SeenTitle(article.title)} ELSE @]

Reject(article, st) == [st EXCEPT !.rej = @ \cup {article}]

\* the post-filter of a category: any(kw in text for kw in all_..._words)
PassesFilter(article, filter) == filter = "none" \/ filter \in article.words

\* one "for a in ..." loop of the function
RECURSIVE ProcessGroup(_, _, _, _)
ProcessGroup(resp, category, filter, st) ==
    IF resp = <<>> THEN st
    ELSE LET a == Head(resp)
             st2 == IF IsSeen(a, st.urls, st.paths, st.titles) THEN Reject(a, st)
                    ELSE IF PassesFilter(a, filter) THEN Accept(a, category, st)
                    ELSE Reject(a, st)
         IN  ProcessGroup(Tail(resp), category, filter, st2)

\* category_distribution.get(key, 0), as a percentage
Ratio(prefs, key) ==
    IF key \in DOMAIN prefs.category_distribution
    THEN prefs.category_distribution[key] ELSE 0

\* get_default_preferences: category_distribution is {}
DefaultPreferences ==
    [learning_phase |-> 0, category_distribution |-> <<>>]

LearnedPreferences ==
    { [learning_phase |-> 2,
       category_distribution |-> [ai |-> 50, finance |-> 30, politics |-> 20]],
      [learning_phase |-> 1,
       category_distribution |-> [ai |-> 60, finance |-> 40, politics |-> 0]],
      [learning_phase |-> 3,
       category_distribution |-> [ai |-> 0, finance |-> 50, politics |-> 50]] }

PreferenceChoices == {DefaultPreferences} \cup LearnedPreferences

----------------------------------------------------------------------------
(* main.py: parse_filtered_articles *)

\* An article as the pipeline carries it after aggregation.
Article(url, title, category) ==
    [url |-> url, title |-> title, words |-> {}, category |-> category]

\* A line of the ranking response that holds a URL:
\*   kind "URL"  : "URL: <url><tail>"   (the form the pattern looks for)
\*   kind "LINK" : "<link emoji> <url>" (the form the prompt lists articles in)
\* tail: characters other than whitespace, "]" and ")" that follow the URL
Line(kind, url, tail) == [kind |-> kind, url |-> url, tail |-> tail]

\* url_pattern.finditer: the captured strings, in order
RECURSIVE FindUrls(_)
FindUrls(response) ==
    IF response = <<>> THEN <<>>
    ELSE LET l == Head(response)
         IN  (IF l.kind = "URL" THEN <<[url |-> l.url, tail |-> l.tail]>> ELSE <<>>)
             \o FindUrls(Tail(response))

\* article["url"] == url, for a captured string
UrlEquals(article, captured) ==
    captured.tail = <<>> /\ article.url = captured.url

FirstMatch_Fabricate(captured, candidates) ==
    LET idx == {i \in 1..Len(candidates) : UrlEquals(candidates[i], captured)}
    IN  IF idx = {}
        THEN <<Article(captured.url, <<>>, "ai")>>
        ELSE <<candidates[CHOOSE i \in idx : \A k \in idx : i <= k]>>

\* the inner loop: the first article with that URL, if any
FirstMatch(captured, candidates) ==
    LET idx == {i \in 1..Len(candidates) : UrlEquals(candidates[i], captured)}
    IN  IF idx = {}
        THEN <<>>
        ELSE <<candidates[CHOOSE i \in idx : \A k \in idx : i <= k]>>

AlreadySeen_Never(captured, seen_urls) == FALSE

\* if url in seen_urls: continue
AlreadySeen(captured, seen_urls) == captured \in seen_urls

RECURSIVE ParseLoop(_, _, _, _)
ParseLoop(matches, candidates, seen_urls, sel) ==
    IF matches = <<>> THEN sel
    ELSE LET c == Head(matches)
         IN  IF AlreadySeen(c, seen_urls)
             THEN ParseLoop(Tail(matches), candidates, seen_urls, sel)
             ELSE ParseLoop(Tail(matches), candidates, seen_urls \cup {c},
                            sel \o FirstMatch(c, candidates))

ParseFilteredArticles(response, candidates) ==
    ParseLoop(FindUrls(response), candidates, {}, <<>>)

----------------------------------------------------------------------------
(* Inputs of parse_filtered_articles *)

\* length of the candidate list and of the response
MaxOrig == 2
MaxLines == 3

UnknownUrl == Url("z.com", OtherPath)

ParseArticles ==
    { Article(Url("a.com", LongPath), TitleA, "ai"),
      Article(Url("a.com", LongPath), TitleF, "politics"),
      Article(Url("c.com", OtherPath), TitleB, "finance") }

ResponseLines ==
    { Line("URL", Url("a.com", LongPath), <<>>),
      Line("URL", Url("c.com", OtherPath), <<>>),
      Line("URL", UnknownUrl, <<>>),
      Line("URL", Url("c.com", OtherPath), <<".">>),
      Line("LINK", Url("a.com", LongPath), <<>>) }

\* main.py:138-140  the category minimums the prompts state
MinAI == 5
MinFinance == 4
MinPolitics == 2

CategoryMin == [ai |-> MinAI, finance |-> MinFinance, politics |-> MinPolitics]

Categories == {"ai", "finance", "politics"}

QuotaDomains ==
    [ai |-> <<"ai1.com", "ai2.com", "ai3.com", "ai4.com", "ai5.com">>,
     finance |-> <<"fin1.com", "fin2.com", "fin3.com", "fin4.com">>,
     politics |-> <<"pol1.com", "pol2.com">>]

QuotaArticle(cat, k) ==
    Article(Url(QuotaDomains[cat][k], LongPath), <<cat, " ">> \o Str(k, "x"), cat)

\* the first n articles of a category
QuotaGroup(cat, n) == [k \in 1..n |-> QuotaArticle(cat, k)]

\* candidate lists with the minimum of every category, or one short of it
QuotaBatches ==
    { QuotaGroup("ai", a) \o QuotaGroup("finance", f) \o QuotaGroup("politics", p) :
        a \in {MinAI - 1, MinAI}, f \in {MinFinance - 1, MinFinance},
        p \in {MinPolitics - 1, MinPolitics} }

UrlLines(candidates) == [k \in 1..Len(candidates) |-> Line("URL", candidates[k].url, <<>>)]

\* responses that name the first a, f and p articles of the categories
QuotaResponses ==
    { UrlLines(QuotaGroup("ai", a) \o QuotaGroup("finance", f)
               \o QuotaGroup("politics", p)) :
        a \in 0..MinAI, f \in {0, MinFinance - 1, MinFinance}, p \in 0..MinPolitics }

ParseInit ==
    /\ parsePc = "call"
    /\ original_articles \in SeqsUpTo(ParseArticles, MaxOrig)
    /\ gemini_response \in SeqsUpTo(ResponseLines, MaxLines)
    /\ selected = <<>>

\* the ranking stage of a run with enough candidates for the category targets
SelectInit ==
    /\ parsePc = "call"
    /\ original_articles \in QuotaBatches
    /\ gemini_response \in QuotaResponses
    /\ selected = <<>>

ParseIdle ==
    /\ parsePc = "off"
    /\ original_articles = <<>>
    /\ gemini_response = <<>>
    /\ selected = <<>>

Parse ==
    /\ parsePc = "call"
    /\ selected' = ParseFilteredArticles(gemini_response, original_articles)
    /\ parsePc' = "returned"
    /\ UNCHANGED <<gemini_response, original_articles, notParse>>

ParseNext == Parse

----------------------------------------------------------------------------
(* main.py: generate_summary, generate_summaries *)

\* main.py:674  rate_limit: int = 4
InitialRateLimit == 4
\* main.py:687  rate_limit = 5
SteadyRateLimit == 5

SummaryFields == {"headline", "key_points", "detailed_summary", "why_it_matters"}

\* What the summary request comes back with:
\*   "api_error"  generate_content raises
\*   "no_json"    text without a {...} span
\*   "bad_json"   a {...} span json.loads rejects
\*   "json"       a JSON object with the given keys
SummaryResponse(kind, fields) == [kind |-> kind, fields |-> fields]

SummaryResponses ==
    { SummaryResponse("api_error", {}),
      SummaryResponse("no_json", {}),
      SummaryResponse("bad_json", {}),
      SummaryResponse("json", {}),
      SummaryResponse("json", {"headline"}),
      SummaryResponse("json", SummaryFields) }

\* a Python value: None, or a dict with the given keys
None == [none |-> TRUE, keys |-> {}]
Dict(keys) == [none |-> FALSE, keys |-> keys]

\* generate_summary
GenerateSummary(response) ==
    IF response.kind = "json" THEN Dict(response.fields) ELSE None

\* "if summary:" -- None and the empty dict are false
Truthy(summary) == ~summary.none /\ summary.keys # {}

\* the body of the loop below the wait
SummarizeOne(article, response, res) ==
    LET summary == GenerateSummary(response)
    IN  IF Truthy(summary)
        THEN Append(res, article @@ [summary |-> summary])
        ELSE res

NeedsWait_FullWindow(i, limit) == i > 1 /\ (i - 1) % SteadyRateLimit = 0

\* if i > 1 and (i - 1) % rate_limit == 0
NeedsWait(i, limit) == i > 1 /\ (i - 1) % limit = 0

\* generate_summaries as a whole; responses[k] answers the request for articles[k]
RECURSIVE SummariesFrom(_, _, _, _, _, _)
SummariesFrom(i, candidates, responses, limit, res, waits) ==
    IF i > Len(candidates) THEN [results |-> res, pauses |-> waits]
    ELSE IF NeedsWait(i, limit)
         THEN SummariesFrom(i + 1, candidates, responses, SteadyRateLimit,
                            SummarizeOne(candidates[i], responses[i], res),
                            Append(waits, i - 1))
         ELSE SummariesFrom(i + 1, candidates, responses, limit,
                            SummarizeOne(candidates[i], responses[i], res), waits)

GenerateSummaries(candidates, responses) ==
    SummariesFrom(1, candidates, responses, InitialRateLimit, <<>>, <<>>)

----------------------------------------------------------------------------
(* generate_summaries, one action per wait and per request *)

\* generative requests collect_candidates issues before it calls
\* generate_summaries: the ranking request (main.py:868)
RankingRequests == 1

\* articles handed to generate_summaries
MaxSummArticles == 11

SummArticle(k) ==
    Article(Url("s.com", <<"/">> \o Str(k, "n")), <<"t">>, "ai") @@ [content |-> "text"]

SummInit ==
    /\ summPc = "loop"
    /\ \E n \in 0..MaxSummArticles : summ_articles = [k \in 1..n |-> SummArticle(k)]
    /\ summ_i = 1
    /\ rate_limit = InitialRateLimit
    /\ results = <<>>
    /\ pauses = <<>>

SummIdle ==
    /\ summPc = "off"
    /\ summ_articles = <<>>
    /\ summ_i = 1
    /\ rate_limit = InitialRateLimit
    /\ results = <<>>
    /\ pauses = <<>>

\* time.sleep(60); rate_limit = 5
RateLimitWait ==
    /\ summPc = "loop"
    /\ summ_i <= Len(summ_articles)
    /\ NeedsWait(summ_i, rate_limit)
    /\ pauses' = Append(pauses, summ_i - 1)
    /\ rate_limit' = SteadyRateLimit
    /\ summPc' = "request"
    /\ UNCHANGED <<summ_articles, summ_i, results, notSumm>>

NoWait ==
    /\ summPc = "loop"
    /\ summ_i <= Len(summ_articles)
    /\ ~NeedsWait(summ_i, rate_limit)
    /\ summPc' = "request"
    /\ UNCHANGED <<summ_articles, summ_i, rate_limit, results, pauses, notSumm>>

Summarize ==
    /\ summPc = "request"
    /\ \E response \in SummaryResponses :
          results' = SummarizeOne(summ_articles[summ_i], response, results)
    /\ summ_i' = summ_i + 1
    /\ summPc' = "loop"
    /\ UNCHANGED <<summ_articles, rate_limit, pauses, notSumm>>

SummReturn ==
    /\ summPc = "loop"
    /\ summ_i > Len(summ_articles)
    /\ summPc' = "returned"
    /\ UNCHANGED <<summ_articles, summ_i, rate_limit, results, pauses, notSumm>>

SummNext ==
    \/ RateLimitWait
    \/ NoWait
    \/ Summarize
    \/ SummReturn

----------------------------------------------------------------------------
(* gnews_client.py: collect_multi_category_articles as a whole *)

EmptyDedupState == DedupState(<<>>, {}, {}, {}, {})

\* the four requests answer with rAI1, rAI2, rFinance and rPolitics
CollectMultiCategoryArticles(prefs, rAI1, rAI2, rFinance, rPolitics) ==
    LET s1 == IF Ratio(prefs, "ai") > 0
              THEN ProcessGroup(rAI2, "ai", "none",
                                ProcessGroup(rAI1, "ai", "none", EmptyDedupState))
              ELSE EmptyDedupState
        s2 == IF Ratio(prefs, "finance") > 0
              THEN ProcessGroup(rFinance, "finance", "finance", s1)
              ELSE s1
        s3 == IF Ratio(prefs, "politics") > 0
              THEN ProcessGroup(rPolitics, "politics", "politics", s2)
              ELSE s2
    IN  s3.all

\* whether the function issues a GNews request at all
IssuesRequest(prefs) == \E key \in {"ai", "finance", "politics"} : Ratio(prefs, key) > 0

----------------------------------------------------------------------------
(* main.py: history dedup *)

\* _normalize_url_path
NormalizeUrlPath(url) == RStripChar(url.path, "/")

\* _title_prefix
TitlePrefix(title) == Strip(Slice(Strip(title), TitlePrefixLen))

\* _is_duplicate
IsDuplicate(article, prev_urls, prev_url_paths, prev_title_prefixes) ==
    \/ article.url \in prev_urls
    \/ LET path == NormalizeUrlPath(article.url)
       IN  path # <<>> /\ path \in prev_url_paths
    \/ LET prefix == TitlePrefix(article.title)
       IN  prefix # <<>> /\ prefix \in prev_title_prefixes

Absent == [ext |-> "none", articles |-> <<>>]

NoUrl == Url("", <<>>)

\* what one stored candidates document adds to the three sets
\* (.json: guarded by "if url" / "if title"; .md: whatever the patterns find)
DocUrls(doc) == {a.url : a \in {x \in Range(doc.articles) : x.url # NoUrl}}
DocPaths(doc) == {NormalizeUrlPath(u) : u \in DocUrls(doc)}
DocTitles(doc) ==
    {TitlePrefix(a.title) : a \in {x \in Range(doc.articles) : x.title # <<>>}}

Previous(urls, paths, titles) == [urls |-> urls, paths |-> paths, titles |-> titles]

NoPrevious == Previous({}, {}, {})

\* load_previous_candidates(days_back=2); outcome "error" is a store failure
\* other than not-found while reading
LoadPreviousCandidates(environment, documents, outcome) ==
    IF ~environment.GITHUB_TOKEN THEN NoPrevious
    ELSE IF outcome = "error" THEN NoPrevious
    ELSE Previous(DocUrls(documents.day1) \cup DocUrls(documents.day2),
                  DocPaths(documents.day1) \cup DocPaths(documents.day2),
                  DocTitles(documents.day1) \cup DocTitles(documents.day2))

\* [a for a in articles if not _is_duplicate(a, ...)]
RECURSIVE FilterDuplicates(_, _)
FilterDuplicates(list, prev) ==
    IF list = <<>> THEN <<>>
    ELSE (IF IsDuplicate(Head(list), prev.urls, prev.paths, prev.titles)
          THEN <<>> ELSE <<Head(list)>>)
         \o FilterDuplicates(Tail(list), prev)

\* Stage 1.5 of collect_candidates
HistoryDedup(list, prev) ==
    IF prev.urls # {} \/ prev.titles # {} THEN FilterDuplicates(list, prev) ELSE list

----------------------------------------------------------------------------
(* main.py: _fetch_one_article, fetch_article_contents *)

\* main.py:607  len(text) < 100
MinContentLen == 100
\* main.py:609  text[:5000]
MaxContentLen == 5000

\* What fetching one URL comes to:
\*   "download_failed"  trafilatura.fetch_url returns nothing
\*   "exception"        the download or the extraction raises
\*   "text"             extraction returns a text of the given length (0: none)
FetchOutcome(kind, len) == [kind |-> kind, len |-> len]

FetchOutcomes ==
    { FetchOutcome("download_failed", 0),
      FetchOutcome("exception", 0),
      FetchOutcome("text", 0),
      FetchOutcome("text", MinContentLen - 1),
      FetchOutcome("text", MinContentLen) }

\* a fetch that failed: a download error, an empty download, an extraction
\* with no text or fewer than 100 characters, or an exception
IsFetchFailure(outcome) ==
    outcome.kind # "text" \/ outcome.len < 100

FetchSucceeds_AnyText(outcome) == outcome.kind = "text"

FetchSucceeds(outcome) ==
    outcome.kind = "text" /\ outcome.len # 0 /\ ~(outcome.len < MinContentLen)

\* _fetch_one_article: <<the article with its content>>, or <<>> for None
FetchOneArticle(article, outcome) ==
    IF FetchSucceeds(outcome)
    THEN <<article @@ [content |-> Minimum(outcome.len, MaxContentLen)]>>
    ELSE <<>>

\* fetch_article_contents: order is the order in which the workers complete
RECURSIVE FetchInOrder(_, _, _)
FetchInOrder(list, order, outcomes) ==
    IF order = <<>> THEN <<>>
    ELSE FetchOneArticle(list[Head(order)], outcomes[Head(order)])
         \o FetchInOrder(list, Tail(order), outcomes)

CompletionOrders(n) ==
    {f \in [1..n -> 1..n] : \A i, j \in 1..n : i # j => f[i] # f[j]}

----------------------------------------------------------------------------
(* main.py: load_user_preferences, push_to_github, the persisted document *)

\* a fallback that is not the default state
LoadUserPreferences_LearnedFallback(environment, documents, outcome) ==
    [raised |-> outcome = "error" /\ environment.GITHUB_TOKEN,
     preferences |-> IF environment.GITHUB_TOKEN /\ documents.prefs_exists
                     THEN documents.prefs
                     ELSE [learning_phase |-> 1,
                           category_distribution |->
                               [ai |-> 0, finance |-> 60, politics |-> 40]]]

\* load_user_preferences; outcome "error" is a store failure other than
\* not-found.  raised: the exception leaves the function.
LoadUserPreferences(environment, documents, outcome) ==
    IF ~environment.GITHUB_TOKEN
    THEN [raised |-> FALSE, preferences |-> DefaultPreferences]
    ELSE IF outcome = "error"
    THEN [raised |-> TRUE, preferences |-> DefaultPreferences]
    ELSE IF documents.prefs_exists
    THEN [raised |-> FALSE, preferences |-> documents.prefs]
    ELSE [raised |-> FALSE, preferences |-> DefaultPreferences]

\* one request that left the process: to the store, to GNews, to a site, to
\* the ranking / summary service; n: items the answer added to the batch;
\* path: the document of the store the request names ("" for none)
EventAt(op, outcome, n, path) == [op |-> op, outcome |-> outcome, n |-> n, path |-> path]

Event(op, outcome, n) == EventAt(op, outcome, n, "")

PreferencesPath == "user_preferences.json"
CandidatesPath == "news/<date>-candidates.json"

StoreReads == {"load_preferences", "load_history", "get_contents"}
StoreWrites == {"update_file", "create_file"}
ServiceRequests == {"gnews_request", "fetch_url", "rank_request", "summary_request"}

\* one call of the contents API made by push_to_github; sha: the version the
\* call carries (the blob a sha names is the document itself), Absent for none
Call(op, outcome, sha) == [op |-> op, outcome |-> outcome, sha |-> sha]

\* a push that creates the file without looking it up
PushToGithub_CreateBlindly(token, existing, content, lookup, write) ==
    [raised |-> ~token,
     calls |-> IF token THEN <<Call("create_file", "ok", Absent)>> ELSE <<>>,
     document |-> IF token THEN content ELSE existing]

\* push_to_github(file_path, content, commit_message)
\*   existing  the document the store holds under file_path, or Absent
\*   lookup    "ok": get_contents answers; "error": it fails other than 404
\*   write     "ok", "error" (fails other than 404), "not_found" (404 on the
\*             write, as for a token without write access)
\* The handler of status 404 covers update_file too and then calls
\* create_file; the contents API refuses to create over an existing path.
PushToGithub(token, existing, content, lookup, write) ==
    IF ~token
    THEN [raised |-> TRUE, calls |-> <<>>, document |-> existing]
    ELSE IF lookup = "error"
    THEN [raised |-> TRUE, calls |-> <<Call("get_contents", "error", Absent)>>,
          document |-> existing]
    ELSE IF existing # Absent
    THEN IF write = "ok"
         THEN [raised |-> FALSE,
               calls |-> <<Call("get_contents", "ok", Absent),
                           Call("update_file", "ok", existing)>>,
               document |-> content]
         ELSE IF write = "error"
         THEN [raised |-> TRUE,
               calls |-> <<Call("get_contents", "ok", Absent),
                           Call("update_file", "error", existing)>>,
               document |-> existing]
         ELSE [raised |-> TRUE,
               calls |-> <<Call("get_contents", "ok", Absent),
                           Call("update_file", "not_found", existing),
                           Call("create_file", "not_found", Absent)>>,
               document |-> existing]
    ELSE IF write = "ok"
         THEN [raised |-> FALSE,
               calls |-> <<Call("get_contents", "not_found", Absent),
                           Call("create_file", "ok", Absent)>>,
               document |-> content]
         ELSE [raised |-> TRUE,
               calls |-> <<Call("get_contents", "not_found", Absent),
                           Call("create_file", write, Absent)>>,
               document |-> existing]

WriteOutcomes == {"ok", "error", "not_found"}

\* articles a document of the push inputs holds at most
MaxPushArticles == 2

PushDocuments ==
    {[ext |-> "json", articles |-> list] :
        list \in SeqsUpTo({[url |-> Url("a.com", LongPath), title |-> TitleA],
                           [url |-> Url("b.com", ShortPath), title |-> TitleE]},
                          MaxPushArticles)}

PushInit ==
    /\ pushPc = "call"
    /\ push_token \in BOOLEAN
    /\ push_existing \in PushDocuments \cup {Absent}
    /\ push_content \in PushDocuments
    /\ push_calls = <<>>
    /\ push_raised = FALSE
    /\ push_document = push_existing

PushIdle ==
    /\ pushPc = "off"
    /\ push_token = TRUE
    /\ push_existing = Absent
    /\ push_content = Absent
    /\ push_calls = <<>>
    /\ push_raised = FALSE
    /\ push_document = Absent

\* one call of push_to_github
Push ==
    /\ pushPc = "call"
    /\ \E lookup \in {"ok", "error"}, write \in WriteOutcomes :
          LET r == PushToGithub(push_token, push_existing, push_content, lookup, write)
          IN  /\ push_calls' = r.calls
              /\ push_raised' = r.raised
              /\ push_document' = r.document
    /\ pushPc' = "done"
    /\ UNCHANGED <<push_token, push_existing, push_content, notPush>>

PushNext == Push

\* the calls of a push, as events of the run
CallEvents(calls, path) ==
    [k \in 1..Len(calls) |-> EventAt(calls[k].op, calls[k].outcome, 0, path)]

\* what one GNews request comes to:
\*   "ok"             the parsed articles
\*   "request_error"  a timeout, a connection or HTTP error (RequestException)
\*   "other_error"    any other exception of fetch_articles / _parse_articles
\*                    (a payload that is not the expected JSON shape)
SourceAnswer(kind, items) == [kind |-> kind, items |-> items]

\* GNewsClient.fetch_articles: a RequestException is caught and gives [],
\* any other exception leaves the function
FetchArticles(answer) ==
    [raised |-> answer.kind = "other_error",
     items |-> IF answer.kind = "ok" THEN answer.items ELSE <<>>]

\* the requests collect_multi_category_articles issues, in order
Requests(prefs) ==
    (IF Ratio(prefs, "ai") > 0
     THEN <<[slot |-> 1, cat |-> "ai", filter |-> "none"],
            [slot |-> 2, cat |-> "ai", filter |-> "none"]>> ELSE <<>>)
    \o (IF Ratio(prefs, "finance") > 0
        THEN <<[slot |-> 3, cat |-> "finance", filter |-> "finance"]>> ELSE <<>>)
    \o (IF Ratio(prefs, "politics") > 0
        THEN <<[slot |-> 4, cat |-> "politics", filter |-> "politics"]>> ELSE <<>>)

\* the requests in order, up to the first exception that leaves fetch_articles
RECURSIVE GatherFrom(_, _, _, _)
GatherFrom(reqs, answers, st, events) ==
    IF reqs = <<>> THEN [raised |-> FALSE, events |-> events]
    ELSE LET q == Head(reqs)
             r == FetchArticles(answers[q.slot])
             st2 == ProcessGroup(r.items, q.cat, q.filter, st)
         IN  IF r.raised
             THEN [raised |-> TRUE,
                   events |-> Append(events, Event("gnews_request", "other_error", 0))]
             ELSE GatherFrom(Tail(reqs), answers, st2,
                             Append(events, Event("gnews_request", answers[q.slot].kind,
                                                  Len(st2.all) - Len(st.all))))

\* collect_multi_category_articles as collect_candidates calls it (Stage 1):
\* without GNEWS_API_KEY the first GNewsClient() raises before any request
CollectFromSources(prefs, has_key, answers) ==
    IF IssuesRequest(prefs) /\ ~has_key
    THEN [raised |-> TRUE, all |-> <<>>, events |-> <<>>]
    ELSE LET g == GatherFrom(Requests(prefs), answers, EmptyDedupState, <<>>)
         IN  [raised |-> g.raised,
              all |-> IF g.raised THEN <<>>
                      ELSE CollectMultiCategoryArticles(prefs,
                               FetchArticles(answers[1]).items,
                               FetchArticles(answers[2]).items,
                               FetchArticles(answers[3]).items,
                               FetchArticles(answers[4]).items),
              events |-> g.events]

\* the "output" dict of run_candidate_mode
OutputArticle(a) ==
    [url |-> a.url, title |-> a.title, category |-> a.category, summary |-> a.summary]

OutputDocument(list) ==
    [ext |-> "json", articles |-> [k \in 1..Len(list) |-> OutputArticle(list[k])]]

\* generate_summaries(client, selected)
SummariesInput_AllFetched(fetched, chosen) == fetched

SummariesInput(fetched, chosen) == chosen

----------------------------------------------------------------------------
(* Inputs of a run *)

\* articles one GNews request returns at most, within a run
MaxRunFetch == 1
\* URL lines of the ranking response, within a run
MaxRunLines == 2

RunRawArticles ==
    { Raw(Url("a.com", LongPath), TitleA, {"finance"}),
      Raw(Url("b.com", ShortPath), TitleE, {"finance", "politics"}) }

RunResponses == SeqsUpTo(RunRawArticles, MaxRunFetch)

RunSourceAnswers ==
    {SourceAnswer("ok", r) : r \in RunResponses}
        \cup {SourceAnswer("request_error", <<>>), SourceAnswer("other_error", <<>>)}

RunResponseLines ==
    { Line("URL", Url("a.com", LongPath), <<>>),
      Line("URL", Url("b.com", ShortPath), <<>>),
      Line("URL", UnknownUrl, <<>>) }

RankingResponses == SeqsUpTo(RunResponseLines, MaxRunLines)

Stored(url, title) == [url |-> url, title |-> title]

Document(ext, list) == [ext |-> ext, articles |-> list]

\* the batch an earlier run of the same date persisted
EarlierBatch ==
    [ext |-> "json",
     articles |-> <<[url |-> Url("z.com", OtherPath), title |-> TitleC,
                     category |-> "politics", summary |-> Dict(SummaryFields)]>>]

\* what the store holds for the two prior days and for today
Histories ==
    { [day1 |-> Absent, day2 |-> Absent, today |-> Absent],
      \* yesterday: another site's article under the same short path
      [day1 |-> Document("json", <<Stored(Url("x.com", ShortPath), <<"h">>)>>),
       day2 |-> Absent, today |-> Absent],
      \* the day before: the long path on another domain, and a title that
      \* starts like TitleE; today's document exists already
      [day1 |-> Absent,
       day2 |-> Document("md", <<Stored(Url("y.com", LongPathSlash), <<"e", " ">>)>>),
       today |-> EarlierBatch],
      \* yesterday: the very URL, under an empty title
      [day1 |-> Document("json", <<Stored(Url("a.com", LongPath), <<>>)>>),
       day2 |-> Absent, today |-> Absent] }

Environments ==
    [GEMINI_API_KEY : BOOLEAN, GNEWS_API_KEY : BOOLEAN, GITHUB_TOKEN : BOOLEAN]

RunPreferences ==
    { [learning_phase |-> 2,
       category_distribution |-> [ai |-> 50, finance |-> 30, politics |-> 20]],
      [learning_phase |-> 1,
       category_distribution |-> [ai |-> 0, finance |-> 60, politics |-> 40]] }

\* user_preferences.json holds p, or does not exist
StoredPreferences ==
    {[exists |-> TRUE, doc |-> p] : p \in RunPreferences}
        \cup {[exists |-> FALSE, doc |-> DefaultPreferences]}

Stores ==
    { [prefs_exists |-> sp.exists, prefs |-> sp.doc, day1 |-> h.day1,
       day2 |-> h.day2, today |-> h.today] :
        sp \in StoredPreferences, h \in Histories }

\* a stage that was invoked: how many items it was handed and how many it yielded
Stage(name, input, yield) == [stage |-> name, input |-> input, yield |-> yield]

Result(success, message) == [success |-> success, message |-> message]

Running == Result(FALSE, "running")

----------------------------------------------------------------------------
(* run_candidate_mode, one action per stage *)

RunInit ==
    /\ runPc = "load_prefs"
    /\ env \in Environments
    /\ store \in Stores
    /\ run_preferences = DefaultPreferences
    /\ articles = <<>>
    /\ removed = {}
    /\ fetch_failed = {}
    /\ run_selected = <<>>
    /\ ranked = <<>>
    /\ stages = <<>>
    /\ effects = <<>>
    /\ run_result = Running

RunIdle ==
    /\ runPc = "off"
    /\ env = [GEMINI_API_KEY |-> TRUE, GNEWS_API_KEY |-> TRUE, GITHUB_TOKEN |-> TRUE]
    /\ store = [prefs_exists |-> FALSE, prefs |-> DefaultPreferences,
                day1 |-> Absent, day2 |-> Absent, today |-> Absent]
    /\ run_preferences = DefaultPreferences
    /\ articles = <<>>
    /\ removed = {}
    /\ fetch_failed = {}
    /\ run_selected = <<>>
    /\ ranked = <<>>
    /\ stages = <<>>
    /\ effects = <<>>
    /\ run_result = Running

\* "return False, ..." of run_candidate_mode
Return(success, message) ==
    /\ runPc' = "done"
    /\ run_result' = Result(success, message)

\* preferences = load_user_preferences()
LoadPrefs ==
    /\ runPc = "load_prefs"
    /\ \E outcome \in {"ok", "error"} :
          LET r == LoadUserPreferences(env, store, outcome)
              answer == IF outcome = "error" THEN "error"
                        ELSE IF store.prefs_exists THEN "ok" ELSE "not_found"
          IN  /\ effects' = IF env.GITHUB_TOKEN
                            THEN Append(effects, EventAt("load_preferences", answer, 0,
                                                         PreferencesPath))
                            ELSE effects
              /\ IF r.raised
                 THEN /\ Return(FALSE, "Error: GithubException")
                      /\ UNCHANGED run_preferences
                 ELSE /\ run_preferences' = r.preferences
                      /\ runPc' = "collect"
                      /\ UNCHANGED run_result
    /\ UNCHANGED <<env, store, articles, removed, fetch_failed, run_selected,
                   ranked, stages, notRun>>

\* collect_candidates: the GEMINI_API_KEY check and Stage 1
Aggregate ==
    /\ runPc = "collect"
    /\ IF ~env.GEMINI_API_KEY
       THEN /\ Return(FALSE, "Error: ValueError")
            /\ UNCHANGED <<articles, stages, effects>>
       ELSE \E answers \in [1..4 -> RunSourceAnswers] :
              LET c == CollectFromSources(run_preferences, env.GNEWS_API_KEY, answers)
              IN  /\ stages' = Append(stages, Stage("aggregate", TotalArticles, Len(c.all)))
                  /\ effects' = effects \o c.events
                  /\ articles' = c.all
                  /\ IF c.raised \/ c.all = <<>>
                     THEN Return(FALSE, "No candidates collected")
                     ELSE runPc' = "dedup" /\ UNCHANGED run_result
    /\ UNCHANGED <<env, store, run_preferences, removed, fetch_failed,
                   run_selected, ranked, notRun>>

\* Stage 1.5
DedupHistory ==
    /\ runPc = "dedup"
    /\ \E outcome \in {"ok", "error"} :
          LET prev == LoadPreviousCandidates(env, store, outcome)
              kept == HistoryDedup(articles, prev)
          IN  /\ articles' = kept
              /\ removed' = Range(articles) \ Range(kept)
              /\ stages' = Append(stages, Stage("dedup", Len(articles), Len(kept)))
              /\ effects' = IF env.GITHUB_TOKEN
                            THEN Append(effects, Event("load_history", outcome, 0))
                            ELSE effects
    /\ runPc' = "fetch"
    /\ UNCHANGED <<env, store, run_preferences, fetch_failed, run_selected,
                   ranked, run_result, notRun>>

\* Stage 2
FetchContents ==
    /\ runPc = "fetch"
    /\ \E order \in CompletionOrders(Len(articles)) :
       \E outcomes \in [1..Len(articles) -> FetchOutcomes] :
          LET fetched == FetchInOrder(articles, order, outcomes)
          IN  /\ articles' = fetched
              /\ fetch_failed' = {articles[i] : i \in {k \in 1..Len(articles) :
                                      IsFetchFailure(outcomes[k])}}
              /\ stages' = Append(stages, Stage("fetch", Len(articles), Len(fetched)))
              /\ effects' = effects \o [k \in 1..Len(articles) |->
                                          Event("fetch_url", "sent", 0)]
              /\ IF fetched = <<>>
                 THEN Return(FALSE, "No candidates collected")
                 ELSE runPc' = "rank" /\ UNCHANGED run_result
    /\ UNCHANGED <<env, store, run_preferences, removed, run_selected, ranked,
                   notRun>>

\* Stage 3: the ranking request and parse_filtered_articles
Rank ==
    /\ runPc = "rank"
    /\ \/ \* generate_content raises
          /\ Return(FALSE, "Error: APIError")
          /\ effects' = Append(effects, Event("rank_request", "error", 0))
          /\ UNCHANGED <<run_selected, ranked, stages>>
       \/ \E response \in RankingResponses :
             LET chosen == ParseFilteredArticles(response, articles)
             IN  /\ run_selected' = chosen
                 /\ ranked' = chosen
                 /\ stages' = Append(stages, Stage("rank", Len(articles), Len(chosen)))
                 /\ effects' = Append(effects, Event("rank_request", "ok", 0))
                 /\ IF chosen = <<>>
                    THEN Return(FALSE, "No candidates collected")
                    ELSE runPc' = "summarize" /\ UNCHANGED run_result
    /\ UNCHANGED <<env, store, run_preferences, articles, removed, fetch_failed,
                   notRun>>

\* Stage 4
Summaries ==
    /\ runPc = "summarize"
    /\ LET input == SummariesInput(articles, run_selected)
       IN  \E responses \in [1..Len(input) -> SummaryResponses] :
              LET r == GenerateSummaries(input, responses)
              IN  /\ run_selected' = r.results
                  /\ stages' = Append(stages, Stage("summarize", Len(input),
                                                     Len(r.results)))
                  /\ effects' = effects \o [k \in 1..Len(input) |->
                                              Event("summary_request", "sent", 0)]
                  /\ IF r.results = <<>>
                     THEN Return(FALSE, "No candidates collected")
                     ELSE runPc' = "persist" /\ UNCHANGED run_result
    /\ UNCHANGED <<env, store, run_preferences, articles, removed, fetch_failed,
                   ranked, notRun>>

\* push_to_github(candidates_path, ...) and the return of run_candidate_mode
Persist ==
    /\ runPc = "persist"
    /\ stages' = Append(stages, Stage("persist", Len(run_selected), Len(run_selected)))
    /\ \E lookup \in {"ok", "error"}, write \in WriteOutcomes :
          LET r == PushToGithub(env.GITHUB_TOKEN, store.today,
                                OutputDocument(run_selected), lookup, write)
          IN  /\ store' = [store EXCEPT !.today = r.document]
              /\ effects' = effects \o CallEvents(r.calls, CandidatesPath)
              /\ IF r.raised
                 THEN Return(FALSE, IF env.GITHUB_TOKEN THEN "Error: GithubException"
                                    ELSE "Error: ValueError")
                 ELSE Return(TRUE, "Saved")
    /\ UNCHANGED <<env, run_preferences, articles, removed, fetch_failed,
                   run_selected, ranked, notRun>>

Next ==
    \/ LoadPrefs
    \/ Aggregate
    \/ DedupHistory
    \/ FetchContents
    \/ Rank
    \/ Summaries
    \/ Persist

----------------------------------------------------------------------------
(* main.py: run_news_bot, the legacy mode *)

\* get_news_categories: the categories in the order of the dict
NewsCategories ==
    << [id |-> "ai", daily |-> TRUE, generate_script |-> TRUE],
       [id |-> "politics", daily |-> TRUE, generate_script |-> FALSE],
       [id |-> "papers", daily |-> FALSE, generate_script |-> FALSE],
       [id |-> "serendipity", daily |-> FALSE, generate_script |-> FALSE] >>

\* should_run: daily categories always, the others by weekday or day of year
ShouldRun(category, today) == category.daily \/ category.id \in today

\* what the two credentials of the legacy mode can be
LegacyEnvironments == [GEMINI_API_KEY : BOOLEAN, GITHUB_TOKEN : BOOLEAN]

\* what a collection or script request returns: nothing, a text, or the text
\* that says there was no major news
Contents == {"", "news", "no_major_news"}

LegacyInit ==
    /\ legacyPc = "category"
    /\ legacy_env \in LegacyEnvironments
    /\ scheduled \in SUBSET {"papers", "serendipity"}
    /\ category_i = 1
    /\ news_content = ""
    /\ saved = <<>>
    /\ legacy_effects = <<>>
    /\ legacy_result = Running

LegacyIdle ==
    /\ legacyPc = "off"
    /\ legacy_env = [GEMINI_API_KEY |-> TRUE, GITHUB_TOKEN |-> TRUE]
    /\ scheduled = {}
    /\ category_i = 1
    /\ news_content = ""
    /\ saved = <<>>
    /\ legacy_effects = <<>>
    /\ legacy_result = Running

\* the except clause of run_news_bot
LegacyFail(message) ==
    /\ legacyPc' = "done"
    /\ legacy_result' = Result(FALSE, message)

\* "continue" / the end of the loop body
NextCategory ==
    /\ legacyPc' = "category"
    /\ category_i' = category_i + 1

\* a category that is not scheduled today
SkipCategory ==
    /\ legacyPc = "category"
    /\ category_i <= Len(NewsCategories)
    /\ ~ShouldRun(NewsCategories[category_i], scheduled)
    /\ NextCategory
    /\ UNCHANGED <<legacy_env, scheduled, news_content, saved, legacy_effects,
                   legacy_result, notLegacy>>

\* news_content = collect_news(category_id, config)
CollectNews ==
    /\ legacyPc = "category"
    /\ category_i <= Len(NewsCategories)
    /\ ShouldRun(NewsCategories[category_i], scheduled)
    /\ IF ~legacy_env.GEMINI_API_KEY
       THEN /\ LegacyFail("Error: ValueError")
            /\ UNCHANGED <<category_i, news_content, legacy_effects>>
       ELSE \/ \* generate_content raises
               /\ LegacyFail("Error: APIError")
               /\ legacy_effects' = Append(legacy_effects,
                                           Event("collect_request", "error", 0))
               /\ UNCHANGED <<category_i, news_content>>
            \/ \E text \in Contents :
                  /\ legacy_effects' = Append(legacy_effects,
                                              Event("collect_request", "ok", 0))
                  /\ news_content' = text
                  /\ IF text = ""
                     THEN NextCategory
                     ELSE legacyPc' = "push_news" /\ UNCHANGED category_i
                  /\ UNCHANGED legacy_result
    /\ UNCHANGED <<legacy_env, scheduled, saved, notLegacy>>

\* push_to_github(news_path, ...), then the decision to generate a script
PushNews ==
    /\ legacyPc = "push_news"
    /\ \E existing \in {Absent, Document("md", <<>>)}, lookup \in {"ok", "error"},
          write \in WriteOutcomes :
          LET r == PushToGithub(legacy_env.GITHUB_TOKEN, existing,
                                Document("md", <<>>), lookup, write)
          IN  /\ legacy_effects' = legacy_effects \o CallEvents(r.calls, "news/<date>-<id>.md")
              /\ IF r.raised
                 THEN /\ LegacyFail(IF legacy_env.GITHUB_TOKEN
                                    THEN "Error: GithubException"
                                    ELSE "Error: ValueError")
                      /\ UNCHANGED <<category_i, saved>>
                 ELSE /\ saved' = Append(saved, NewsCategories[category_i].id)
                      /\ IF NewsCategories[category_i].generate_script
                            /\ news_content # "no_major_news"
                         THEN legacyPc' = "script" /\ UNCHANGED category_i
                         ELSE NextCategory
                      /\ UNCHANGED legacy_result
    /\ UNCHANGED <<legacy_env, scheduled, news_content, notLegacy>>

\* script_content = generate_script(news_content), pushed when not empty
GenerateScript ==
    /\ legacyPc = "script"
    /\ IF ~legacy_env.GEMINI_API_KEY
       THEN /\ LegacyFail("Error: ValueError")
            /\ UNCHANGED <<category_i, saved, legacy_effects>>
       ELSE \/ /\ LegacyFail("Error: APIError")
               /\ legacy_effects' = Append(legacy_effects,
                                           Event("script_request", "error", 0))
               /\ UNCHANGED <<category_i, saved>>
            \/ \* an empty script is not pushed
               /\ legacy_effects' = Append(legacy_effects,
                                           Event("script_request", "ok", 0))
               /\ NextCategory
               /\ UNCHANGED <<saved, legacy_result>>
            \/ \E existing \in {Absent, Document("md", <<>>)},
                  lookup \in {"ok", "error"}, write \in WriteOutcomes :
                  LET r == PushToGithub(legacy_env.GITHUB_TOKEN, existing,
                                        Document("md", <<>>), lookup, write)
                  IN  /\ legacy_effects' =
                            Append(legacy_effects, Event("script_request", "ok", 0))
                                \o CallEvents(r.calls, "scripts/<date>-<id>.md")
                      /\ IF r.raised
                         THEN /\ LegacyFail("Error: GithubException")
                              /\ UNCHANGED <<category_i, saved>>
                         ELSE /\ saved' = Append(saved, "script")
                              /\ NextCategory
                              /\ UNCHANGED legacy_result
    /\ UNCHANGED <<legacy_env, scheduled, news_content, notLegacy>>

\* return True, "Saved files: ..."
LegacyReturn ==
    /\ legacyPc = "category"
    /\ category_i > Len(NewsCategories)
    /\ legacyPc' = "done"
    /\ legacy_result' = Result(TRUE, "Saved files")
    /\ UNCHANGED <<legacy_env, scheduled, category_i, news_content, saved,
                   legacy_effects, notLegacy>>

LegacyNext ==
    \/ SkipCategory
    \/ CollectNews
    \/ PushNews
    \/ GenerateScript
    \/ LegacyReturn

----------------------------------------------------------------------------
(* app.py: the /run endpoint *)

\* requests the endpoints serve in one behaviour of the model
MaxRequests == 4

AppInit ==
    /\ token_configured \in BOOLEAN
    /\ threads = <<>>
    /\ http_responses = <<>>

AppIdle ==
    /\ token_configured = FALSE
    /\ threads = <<>>
    /\ http_responses = <<>>

\* GET /run?token=...: 401 when a token is configured and the request carries
\* another one; otherwise a thread running main.main is started and the
\* request is answered at once
RunBot ==
    /\ Len(http_responses) < MaxRequests
    /\ \E token_matches \in BOOLEAN :
          IF token_configured /\ ~token_matches
          THEN /\ http_responses' = Append(http_responses, 401)
               /\ UNCHANGED threads
          ELSE /\ threads' = Append(threads, "running")
               /\ http_responses' = Append(http_responses, 200)
    /\ UNCHANGED <<token_configured, notApp>>

\* GET /
Index ==
    /\ Len(http_responses) < MaxRequests
    /\ http_responses' = Append(http_responses, 200)
    /\ UNCHANGED <<token_configured, threads, notApp>>

\* the target of a started thread returns or raises
ThreadEnds ==
    /\ \E t \in 1..Len(threads) :
          /\ threads[t] = "running"
          /\ threads' = [threads EXCEPT ![t] = "finished"]
    /\ UNCHANGED <<token_configured, http_responses, notApp>>

AppNext ==
    \/ RunBot
    \/ Index
    \/ ThreadEnds

----------------------------------------------------------------------------
(* collect_multi_category_articles on one batch of total_articles raw candidates *)

Digits == <<"0", "1", "2", "3", "4", "5", "6", "7", "8", "9">>

\* two characters that differ for any two k below 100
Numeral(k) == <<Digits[(k \div 10) + 1], Digits[(k % 10) + 1]>>

\* the k-th raw candidate: its own domain, its own path (longer than the
\* minimum), its own title; it passes the filter of every category
Plain(k) ==
    Raw(Url(ToString(k), <<"/", "n", "e", "w", "s", "/">> \o Numeral(k)),
        <<"t">> \o Numeral(k), {"finance", "politics"})

\* the batch in which the candidates at u2 and u3 carry the URL of the one at
\* u1, and the candidate at p2 carries the path of the one at p1 on its own
\* domain; titles all differ
BatchWith(u1, u2, u3, p1, p2) ==
    [k \in 1..TotalArticles |->
        IF k \in {u2, u3} THEN [Plain(k) EXCEPT !.url = Plain(u1).url]
        ELSE IF k = p2 THEN [Plain(k) EXCEPT !.url.path = Plain(p1).url.path]
        ELSE Plain(k)]

\* every category has a positive ratio
AllCategories ==
    [learning_phase |-> 2,
     category_distribution |-> [ai |-> 50, finance |-> 30, politics |-> 20]]

BatchInit ==
    /\ batchPc = "call"
    /\ \E u1 \in {1, 5}, u2 \in {6, 15}, u3 \in {16, TotalArticles},
          p1 \in {2, 17}, p2 \in {18, TotalArticles - 1} :
          raw_batch = BatchWith(u1, u2, u3, p1, p2)
    /\ cuts \in {<<0, 0, 0>>, <<4, 16, 16>>, <<10, 20, 25>>,
                 <<TotalArticles, TotalArticles, TotalArticles>>}
    /\ survivors = <<>>

BatchIdle ==
    /\ batchPc = "off"
    /\ raw_batch = <<>>
    /\ cuts = <<0, 0, 0>>
    /\ survivors = <<>>

\* the four requests return the batch in order, cut at "cuts"
CollectBatch ==
    /\ batchPc = "call"
    /\ survivors' = CollectMultiCategoryArticles(AllCategories,
                        SubSeq(raw_batch, 1, cuts[1]),
                        SubSeq(raw_batch, cuts[1] + 1, cuts[2]),
                        SubSeq(raw_batch, cuts[2] + 1, cuts[3]),
                        SubSeq(raw_batch, cuts[3] + 1, Len(raw_batch)))
    /\ batchPc' = "done"
    /\ UNCHANGED <<raw_batch, cuts, notBatch>>

BatchNext == CollectBatch

----------------------------------------------------------------------------
(* main.py: get_gnews_filtering_prompt, as Stage 3 of collect_candidates calls it *)

\* main.py:239  total_target = 12
TotalTarget == 12
\* main.py:230  score >= 0.5, as a percentage
SourceScoreMin == 50
\* main.py:262  s >= 0.3, as a percentage
TopicScoreMin == 30
\* main.py:233  learning_phase >= 2
SourcePhase == 2
\* main.py:252  learning_phase >= 3
SerendipityPhase == 3

\* round(total_target * ratio), the ratio as a percentage
RoundedCount(pct) ==
    LET q == (TotalTarget * pct) \div 100
        r == (TotalTarget * pct) % 100
    IN  IF r >= 50 THEN q + 1 ELSE q

\* the fixed category lines: about 6, 4 and 2 articles
FixedCategoryLines ==
    {[key |-> "ai", count |-> 6], [key |-> "finance", count |-> 4],
     [key |-> "politics", count |-> 2]}

\* category_lines: from the distribution when it is not empty, else fixed
CategoryLines(category_distribution) ==
    IF DOMAIN category_distribution # {}
    THEN {[key |-> key,
           count |-> IF RoundedCount(category_distribution[key]) < 1 THEN 1
                     ELSE RoundedCount(category_distribution[key])] :
            key \in {k \in DOMAIN category_distribution \cap {"ai", "finance", "politics"} :
                        category_distribution[k] > 0}}
    ELSE FixedCategoryLines

\* the sections of the prompt that depend on the preferences
GetGnewsFilteringPrompt(boosted, suppressed, preferred, distribution, serendipity, phase, learned) ==
    LET all_sources ==
            preferred \cup
                {src \in DOMAIN learned.sources : learned.sources[src] >= SourceScoreMin}
        top_topics ==
            {t \in DOMAIN learned.topics : learned.topics[t] >= TopicScoreMin}
    IN  [boost_section |-> boosted,
         suppress_section |-> suppressed,
         source_section |-> IF phase >= SourcePhase THEN all_sources ELSE {},
         category_section |-> CategoryLines(distribution),
         learned_distribution |-> DOMAIN distribution # {},
         serendipity_section |-> phase >= SerendipityPhase /\ serendipity > 0,
         interest_profile_section |-> top_topics]

\* collect_candidates: the arguments taken from the preferences
RankingPrompt(prefs) ==
    GetGnewsFilteringPrompt(prefs.search_config.boosted_keywords,
                            prefs.search_config.suppressed_keywords,
                            prefs.search_config.preferred_sources,
                            prefs.search_config.category_distribution,
                            prefs.search_config.serendipity_ratio,
                            prefs.learning_phase,
                            prefs.learned_interests)

\* the contents user_preferences.json may have
StoredStates ==
    [learning_phase : 0..3,
     learned_interests :
        [topics : {<<>>, [llm |-> TopicScoreMin - 10], [llm |-> TopicScoreMin]},
         sources : {<<>>, [nikkei |-> SourceScoreMin]}],
     search_config :
        [boosted_keywords : {{}, {"AI"}},
         suppressed_keywords : {{}, {"sports"}},
         preferred_sources : {{}, {"NHK"}},
         category_distribution : {<<>>, [ai |-> 50, finance |-> 30, politics |-> 20]},
         serendipity_ratio : {0, 10}]]

PromptInit ==
    /\ promptPc = "call"
    /\ prompt_preferences \in StoredStates
    /\ prompt = <<>>

PromptIdle ==
    /\ promptPc = "off"
    /\ prompt_preferences = <<>>
    /\ prompt = <<>>

\* prompt = get_gnews_filtering_prompt(...)
BuildPrompt ==
    /\ promptPc = "call"
    /\ prompt' = RankingPrompt(prompt_preferences)
    /\ promptPc' = "done"
    /\ UNCHANGED <<prompt_preferences, notPrompt>>

PromptNext == BuildPrompt

----------------------------------------------------------------------------
(* collect_multi_category_articles, one action per GNews request *)

CurState == DedupState(all_articles, existing_urls, existing_url_paths,
                       existing_title_prefixes, rejected)

SetState(st) ==
    /\ all_articles' = st.all
    /\ existing_urls' = st.urls
    /\ existing_url_paths' = st.paths
    /\ existing_title_prefixes' = st.titles
    /\ rejected' = st.rej

AggInit ==
    /\ aggPc = "ai1"
    /\ preferences \in PreferenceChoices
    /\ all_articles = <<>>
    /\ existing_urls = {}
    /\ existing_url_paths = {}
    /\ existing_title_prefixes = {}
    /\ rejected = {}
    /\ gnews_requests = <<>>

\* the AI section is skipped when its ratio is not positive
SkipAI ==
    /\ aggPc = "ai1"
    /\ ~(Ratio(preferences, "ai") > 0)
    /\ aggPc' = "finance"
    /\ UNCHANGED <<preferences, all_articles, existing_urls, existing_url_paths,
                   existing_title_prefixes, rejected, gnews_requests, notAgg>>

FetchAI_ThreeGroups ==
    /\ aggPc \in {"ai1", "ai2", "ai3"}
    /\ Ratio(preferences, "ai") > 0
    /\ \E resp \in Responses :
          SetState(ProcessGroup(resp, "ai", "none", CurState))
    /\ aggPc' = IF aggPc = "ai1" THEN "ai2" ELSE IF aggPc = "ai2" THEN "ai3" ELSE "finance"
    /\ gnews_requests' = Append(gnews_requests, "ai")
    /\ UNCHANGED <<preferences, notAgg>>

\* one keyword group of AI_KEYWORD_GROUPS
FetchAI ==
    /\ aggPc \in {"ai1", "ai2"}
    /\ Ratio(preferences, "ai") > 0
    /\ \E resp \in Responses :
          SetState(ProcessGroup(resp, "ai", "none", CurState))
    /\ aggPc' = IF aggPc = "ai1" THEN "ai2" ELSE "finance"
    /\ gnews_requests' = Append(gnews_requests, "ai")
    /\ UNCHANGED <<preferences, notAgg>>

SkipFinance ==
    /\ aggPc = "finance"
    /\ ~(Ratio(preferences, "finance") > 0)
    /\ aggPc' = "politics"
    /\ UNCHANGED <<preferences, all_articles, existing_urls, existing_url_paths,
                   existing_title_prefixes, rejected, gnews_requests, notAgg>>

FetchFinance ==
    /\ aggPc = "finance"
    /\ Ratio(preferences, "finance") > 0
    /\ \E resp \in Responses :
          SetState(ProcessGroup(resp, "finance", "finance", CurState))
    /\ aggPc' = "politics"
    /\ gnews_requests' = Append(gnews_requests, "finance")
    /\ UNCHANGED <<preferences, notAgg>>

SkipPolitics ==
    /\ aggPc = "politics"
    /\ ~(Ratio(preferences, "politics") > 0)
    /\ aggPc' = "done"
    /\ UNCHANGED <<preferences, all_articles, existing_urls, existing_url_paths,
                   existing_title_prefixes, rejected, gnews_requests, notAgg>>

FetchPolitics ==
    /\ aggPc = "politics"
    /\ Ratio(preferences, "politics") > 0
    /\ \E resp \in Responses :
          SetState(ProcessGroup(resp, "politics", "politics", CurState))
    /\ aggPc' = "done"
    /\ gnews_requests' = Append(gnews_requests, "politics")
    /\ UNCHANGED <<preferences, notAgg>>

AggNext ==
    \/ SkipAI
    \/ FetchAI
    \/ SkipFinance
    \/ FetchFinance
    \/ SkipPolitics
    \/ FetchPolitics

\* the function is not running
AggIdle ==
    /\ aggPc = "off"
    /\ preferences = DefaultPreferences
    /\ all_articles = <<>>
    /\ existing_urls = {}
    /\ existing_url_paths = {}
    /\ existing_title_prefixes = {}
    /\ rejected = {}
    /\ gnews_requests = <<>>

----------------------------------------------------------------------------
(* The entry points: main (HTTP trigger), scheduled_main (Pub/Sub trigger) *)
(* and the thread run_bot starts with main.main as its target              *)

\* invocations of main and scheduled_main in one behaviour of the model
MaxTriggers == 2

\* the mode selector as the trigger carries it: not given, or a string
NoMode == [given |-> FALSE, value |-> ""]
Mode(value) == [given |-> TRUE, value |-> value]

ModeArgs == {NoMode, Mode("candidate"), Mode("legacy"), Mode("Legacy")}

\* request.args.get(key, default) / os.environ.get(key, default)
Get(arg, default) == IF arg.given THEN arg.value ELSE default

\* "if mode == 'legacy': run_news_bot() else: run_candidate_mode()"
PipelineFor(mode) == IF mode = "legacy" THEN "run_news_bot" ELSE "run_candidate_mode"

\* what a run returns: both run functions catch every Exception and return
\* the pair (success, message)
RunReports(pipeline) ==
    IF pipeline = "run_news_bot"
    THEN {Result(TRUE, "Saved files"), Result(FALSE, "Error")}
    ELSE {Result(TRUE, "Saved"), Result(FALSE, "No candidates collected"),
          Result(FALSE, "Error")}

NoAnswer == [status |-> "none", code |-> 0]

Invocation(entry, mode, runs, reported, answer, raised) ==
    [entry |-> entry, mode |-> mode, runs |-> runs, reported |-> reported,
     answer |-> answer, raised |-> raised]

TriggerInit ==
    /\ trigger_count = 0
    /\ runs_started = 0
    /\ last_trigger = Invocation("none", "", <<>>, Running, NoAnswer, FALSE)

TriggerIdle ==
    /\ trigger_count = 0
    /\ runs_started = 0
    /\ last_trigger = Invocation("none", "", <<>>, Running, NoAnswer, FALSE)

\* main(request): the run chosen by the mode, then the answer
Main ==
    /\ trigger_count < MaxTriggers
    /\ \E arg \in ModeArgs :
          LET mode == Get(arg, "candidate")
              pipeline == PipelineFor(mode)
          IN  \E reported \in RunReports(pipeline) :
                 last_trigger' =
                    Invocation("main", mode, <<pipeline>>, reported,
                               IF reported.success
                               THEN [status |-> "success", code |-> 200]
                               ELSE [status |-> "error", code |-> 500],
                               FALSE)
    /\ trigger_count' = trigger_count + 1
    /\ runs_started' = runs_started + 1
    /\ UNCHANGED notTrigger

\* scheduled_main(cloud_event): the run chosen by NEWS_BOT_MODE, then
\* "raise Exception(message)" when the run reported failure
ScheduledMain ==
    /\ trigger_count < MaxTriggers
    /\ \E arg \in ModeArgs :
          LET mode == Get(arg, "candidate")
              pipeline == PipelineFor(mode)
          IN  \E reported \in RunReports(pipeline) :
                 last_trigger' =
                    Invocation("scheduled_main", mode, <<pipeline>>, reported,
                               NoAnswer, ~reported.success)
    /\ trigger_count' = trigger_count + 1
    /\ runs_started' = runs_started + 1
    /\ UNCHANGED notTrigger

\* the entry points together with the /run endpoint: the thread run_bot
\* starts calls main.main with no argument, main requires its request
\* parameter, so the call ends (ThreadEnds) before the body of main runs
TriggerNext ==
    \/ Main
    \/ ScheduledMain
    \/ RunBot
    \/ ThreadEnds

----------------------------------------------------------------------------
(* The learning phase of the stored preferences.  main.py only reads      *)
(* learning_phase and selection_history; the update that recomputes them  *)
(* is described in the specification: "<3 -> phase 0; 3-6 -> phase 1;      *)
(* 7-13 -> phase 2; >=14 -> phase 3", recomputed from scratch every run.   *)

\* selections the history holds at most
MaxHistory == 14

HistoryTopics == {"ai", "finance"}

LearningPhase_LateFirstStep(history) ==
    IF Len(history) <= 3 THEN 0
    ELSE IF Len(history) < 7 THEN 1
    ELSE IF Len(history) < 14 THEN 2
    ELSE 3

\* the phase derived from len(selectionHistory)
LearningPhase(history) ==
    IF Len(history) < 3 THEN 0
    ELSE IF Len(history) < 7 THEN 1
    ELSE IF Len(history) < 14 THEN 2
    ELSE 3

\* the state get_default_preferences returns
PhaseInit ==
    /\ selection_history = <<>>
    /\ learning_phase = 0

PhaseIdle ==
    /\ selection_history = <<>>
    /\ learning_phase = 0

\* one update: a selection is appended to the history and the phase is
\* recomputed from the whole history
RecordSelection ==
    /\ Len(selection_history) < MaxHistory
    /\ \E topic \in HistoryTopics :
          selection_history' = Append(selection_history, topic)
    /\ learning_phase' = LearningPhase(selection_history')
    /\ UNCHANGED notPhase

PhaseNext == RecordSelection

----------------------------------------------------------------------------
(* The deduplicators on two candidates whose URLs carry a query string *)

WithQuery(url, query) == [url EXCEPT !.query = query]

NoQuery == <<>>
QueryOne == <<"i", "d", "=", "1">>
QueryTwo == <<"i", "d", "=", "2">>

\* URLs as urlparse splits them: netloc, path, query
PairUrls ==
    { WithQuery(Url(dom, path), query) :
        dom \in {"a.com", "b.com"},
        path \in {LongPath, OtherPath},
        query \in {NoQuery, QueryOne, QueryTwo} }

PairInit ==
    /\ pairPc = "check"
    /\ \E u \in PairUrls : first_article = Raw(u, TitleA, {})
    /\ \E u \in PairUrls : second_article = Raw(u, TitleC, {})
    /\ batch_survivors = <<>>
    /\ history_duplicate = FALSE

PairIdle ==
    /\ pairPc = "off"
    /\ first_article = Raw(NoUrl, NoTitle, {})
    /\ second_article = Raw(NoUrl, NoTitle, {})
    /\ batch_survivors = <<>>
    /\ history_duplicate = FALSE

\* the pair as one response of a GNews request (within-batch deduplication),
\* and the second candidate against a history made of the first
\* (load_previous_candidates collects url, _normalize_url_path(url) and
\* _title_prefix(title) of every stored article)
CheckPair ==
    /\ pairPc = "check"
    /\ batch_survivors' =
          ProcessGroup(<<first_article, second_article>>, "ai", "none",
                       EmptyDedupState).all
    /\ history_duplicate' =
          IsDuplicate(second_article, {first_article.url},
                      {NormalizeUrlPath(first_article.url)},
                      {TitlePrefix(first_article.title)})
    /\ pairPc' = "done"
    /\ UNCHANGED <<first_article, second_article, notPair>>

PairNext == CheckPair

----------------------------------------------------------------------------
(* site_scraper.py: collect_site_articles *)

\* articles of the AI sites / of the finance sites in one call, at most
MaxSiteAI == 9
MaxSiteFinance == 6

\* site_scraper.py:764  category_distribution.get("ai", 0.6), as a percentage
DefaultSiteAI == 60
\* site_scraper.py:765  category_distribution.get("finance", 0.4)
DefaultSiteFinance == 40
\* site_scraper.py:767  max(8, ...)
MinSiteAITarget == 8
\* site_scraper.py:768  max(5, ...)
MinSiteFinanceTarget == 5
\* site_scraper.py:771  max(8, ...) articles asked of one site
MinPerSite == 8
\* site_scraper.py:839  title.strip()[:25].strip()
SiteTitlePrefixLen == 25
\* site_scraper.py:849  timedelta(days=2)
SiteCutoffDays == 2

Maximum(a, b) == IF a >= b THEN a ELSE b

\* category_distribution.get(key, default), as a percentage
SiteRatio(prefs, key, default) ==
    IF key \in DOMAIN prefs.category_distribution
    THEN prefs.category_distribution[key] ELSE default

\* round(total * ratio): halves go to the even neighbour
RoundHalfEven(total, pct) ==
    LET q == (total * pct) \div 100
        r == (total * pct) % 100
    IN  IF r > 50 \/ (r = 50 /\ q % 2 = 1) THEN q + 1 ELSE q

AITarget(prefs, total) ==
    Maximum(MinSiteAITarget, RoundHalfEven(total, SiteRatio(prefs, "ai", DefaultSiteAI)))

FinanceTarget(prefs, total) ==
    Maximum(MinSiteFinanceTarget,
            RoundHalfEven(total, SiteRatio(prefs, "finance", DefaultSiteFinance)))

AIPerSite(prefs, total) == Maximum(MinPerSite, (AITarget(prefs, total) \div 4) + 3)
FinancePerSite(prefs, total) == Maximum(MinPerSite, FinanceTarget(prefs, total) + 3)

\* an article as a scraper returns it; focused: its source is one of
\* AI_FOCUSED_SOURCES or its text or URL matches the AI keywords;
\* days_old: the age of published_at in days, -1 when the field is empty
SiteArticle(k, category, focused, days_old) ==
    [url |-> Url("s.com", <<"/">> \o Numeral(k)), title |-> <<"t">> \o Numeral(k),
     category |-> category, focused |-> focused, days_old |-> days_old]

\* the AI keyword filter: economy articles and focused AI articles are kept
KeywordFilter(list) ==
    SelectSeq(list, LAMBDA a : a.category # "ai" \/ a.focused)

SiteTitlePrefix(title) == Strip(Slice(Strip(title), SiteTitlePrefixLen))

\* deduplication by URL and by title prefix
RECURSIVE SiteDedup(_, _, _, _)
SiteDedup(list, seen_urls, seen_title_prefixes, deduped) ==
    IF list = <<>> THEN deduped
    ELSE LET a == Head(list)
             prefix == SiteTitlePrefix(a.title)
         IN  IF a.url \in seen_urls
                \/ (prefix # <<>> /\ prefix \in seen_title_prefixes)
             THEN SiteDedup(Tail(list), seen_urls, seen_title_prefixes, deduped)
             ELSE SiteDedup(Tail(list), seen_urls \cup {a.url},
                            IF prefix # <<>> THEN seen_title_prefixes \cup {prefix}
                            ELSE seen_title_prefixes,
                            Append(deduped, a))

\* "not published_at or published_at >= cutoff"
DateFilter(list) ==
    SelectSeq(list, LAMBDA a : a.days_old = -1 \/ a.days_old <= SiteCutoffDays)

\* list[:n]
Take(list, n) == SubSeq(list, 1, Minimum(Maximum(n, 0), Len(list)))

\* "Limit to target count"
LimitToTarget(deduped, prefs, total) ==
    IF Len(deduped) > total
    THEN LET ai_articles == SelectSeq(deduped, LAMBDA a : a.category = "ai")
             econ_articles == SelectSeq(deduped, LAMBDA a : a.category = "finance")
             final == Take(ai_articles, AITarget(prefs, total))
                        \o Take(econ_articles, FinanceTarget(prefs, total))
             remaining == total - Len(final)
         IN  IF remaining > 0
             THEN LET used_urls == {a.url : a \in Range(final)}
                      extras == SelectSeq(deduped, LAMBDA a : a.url \notin used_urls)
                  IN  final \o Take(extras, remaining)
             ELSE final
    ELSE deduped

CollectSiteArticles(raw, prefs, total) ==
    LimitToTarget(DateFilter(SiteDedup(KeywordFilter(raw), {}, {}, <<>>)), prefs, total)

\* the preferences of a call: the default ones, learned ones, and one whose
\* distribution has no finance entry
SitePreferences ==
    PreferenceChoices \cup
        {[learning_phase |-> 2, category_distribution |-> [ai |-> 80, politics |-> 20]]}

SiteTotals == {10, 14, TotalArticles}

\* n_ai articles of the AI sites and n_fin of the finance sites; of each
\* kind the last one may be one a later stage removes
ScrapedLists ==
    { (IF ai_first THEN ai \o fin ELSE fin \o ai) :
        ai \in { [k \in 1..n |-> SiteArticle(k, "ai", TRUE, 0)] : n \in 0..MaxSiteAI }
               \cup { <<SiteArticle(1, "ai", TRUE, 0), SiteArticle(2, "ai", FALSE, 0),
                        SiteArticle(1, "ai", TRUE, 0), SiteArticle(3, "ai", TRUE, 3)>> },
        fin \in { [k \in 1..n |-> SiteArticle(50 + k, "finance", FALSE, -1)] :
                    n \in 0..MaxSiteFinance },
        ai_first \in BOOLEAN }

SiteInit ==
    /\ sitePc = "call"
    /\ site_preferences \in SitePreferences
    /\ site_total \in SiteTotals
    /\ scraped \in ScrapedLists
    /\ site_result = <<>>

SiteIdle ==
    /\ sitePc = "off"
    /\ site_preferences = DefaultPreferences
    /\ site_total = TotalArticles
    /\ scraped = <<>>
    /\ site_result = <<>>

\* every scraper honours its max_articles, so the AI sites return at most 8
\* and the finance sites at most 2 times their limit
CollectSite ==
    /\ sitePc = "call"
    /\ Len(SelectSeq(scraped, LAMBDA a : a.category = "ai"))
          <= 8 * AIPerSite(site_preferences, site_total)
    /\ Len(SelectSeq(scraped, LAMBDA a : a.category = "finance"))
          <= 2 * FinancePerSite(site_preferences, site_total)
    /\ site_result' = CollectSiteArticles(scraped, site_preferences, site_total)
    /\ sitePc' = "done"
    /\ UNCHANGED <<site_preferences, site_total, scraped, notSite>>

SiteNext == CollectSite

----------------------------------------------------------------------------
(* fetch_article_contents with its worker pool, one action per step of a  *)
(* task: submitted, taken by a worker, finished, collected by the caller  *)

\* articles handed to fetch_article_contents
MaxFetchArticles == 3

\* main.py:620  ThreadPoolExecutor(max_workers=10)
FetchWorkers == 10

FetchArticle(k) == Article(Url("f.com", <<"/">> \o Str(k, "n")), <<"t">>, "ai")

NoOutcome == FetchOutcome("none", 0)

Task(state, worker, ran_on, outcome) ==
    [state |-> state, worker |-> worker, ran_on |-> ran_on, outcome |-> outcome]

FetchInit ==
    /\ fetchPc = "submit"
    /\ \E n \in 0..MaxFetchArticles : fetch_input = [k \in 1..n |-> FetchArticle(k)]
    /\ task_queue = <<>>
    /\ tasks = <<>>
    /\ fetch_results = <<>>

FetchIdle ==
    /\ fetchPc = "off"
    /\ fetch_input = <<>>
    /\ task_queue = <<>>
    /\ tasks = <<>>
    /\ fetch_results = <<>>

\* futures = {executor.submit(_fetch_one_article, a): a for a in articles}
SubmitAll ==
    /\ fetchPc = "submit"
    /\ task_queue' = [k \in 1..Len(fetch_input) |-> k]
    /\ tasks' = [k \in 1..Len(fetch_input) |-> Task("queued", 0, {}, NoOutcome)]
    /\ fetchPc' = "collect"
    /\ UNCHANGED <<fetch_input, fetch_results, notFetch>>

BusyWorkers == {tasks[i].worker : i \in {k \in 1..Len(tasks) : tasks[k].state = "running"}}

\* the workers are interchangeable: the idle one with the least number
IdleWorker == CHOOSE w \in (1..FetchWorkers) \ BusyWorkers :
                 \A v \in (1..FetchWorkers) \ BusyWorkers : w <= v

StartTask_LeavesQueued ==
    /\ task_queue # <<>>
    /\ (1..FetchWorkers) \ BusyWorkers # {}
    /\ LET i == Head(task_queue)
       IN  tasks' = [tasks EXCEPT ![i] = Task("running", IdleWorker,
                                               @.ran_on \cup {IdleWorker}, NoOutcome)]
    /\ UNCHANGED <<fetchPc, fetch_input, task_queue, fetch_results, notFetch>>

\* an idle worker takes the next work item off the queue
StartTask ==
    /\ task_queue # <<>>
    /\ (1..FetchWorkers) \ BusyWorkers # {}
    /\ LET i == Head(task_queue)
       IN  tasks' = [tasks EXCEPT ![i] = Task("running", IdleWorker,
                                               @.ran_on \cup {IdleWorker}, NoOutcome)]
    /\ task_queue' = Tail(task_queue)
    /\ UNCHANGED <<fetchPc, fetch_input, fetch_results, notFetch>>

\* _fetch_one_article returns in its worker
FinishTask ==
    /\ \E i \in 1..Len(tasks) :
          /\ tasks[i].state = "running"
          /\ \E outcome \in FetchOutcomes :
                tasks' = [tasks EXCEPT ![i] = Task("done", 0, @.ran_on, outcome)]
    /\ UNCHANGED <<fetchPc, fetch_input, task_queue, fetch_results, notFetch>>

\* one round of "for future in as_completed(futures)"
CollectResult ==
    /\ fetchPc = "collect"
    /\ \E i \in 1..Len(tasks) :
          /\ tasks[i].state = "done"
          /\ tasks' = [tasks EXCEPT ![i].state = "collected"]
          /\ fetch_results' =
                fetch_results \o FetchOneArticle(fetch_input[i], tasks[i].outcome)
    /\ UNCHANGED <<fetchPc, fetch_input, task_queue, notFetch>>

\* every future was collected: the executor is shut down and results returned
FetchReturn ==
    /\ fetchPc = "collect"
    /\ task_queue = <<>>
    /\ \A i \in 1..Len(tasks) : tasks[i].state = "collected"
    /\ fetchPc' = "returned"
    /\ UNCHANGED <<fetch_input, task_queue, tasks, fetch_results, notFetch>>

FetchNext ==
    \/ SubmitAll
    \/ StartTask
    \/ FinishTask
    \/ CollectResult
    \/ FetchReturn

----------------------------------------------------------------------------
(* collect_multi_category_articles, one action per candidate of its loops *)

\* candidates of one call
MaxTrail == 3

\* candidates that match one another on a single signal each
TrailArticles ==
    { Raw(Url("a.com", LongPath), TitleA, {"finance"}),
      \* the title of the first, other URL and path
      Raw(Url("c.com", OtherPath), TitleB, {"finance", "politics"}),
      \* the path of the second, other domain and title
      Raw(Url("b.com", OtherPath), TitleC, {"politics"}),
      \* the path of the first (trailing slash), other domain and title
      Raw(Url("b.com", LongPathSlash), TitleE, {"politics"}),
      \* the URL of the third, other title, no filter word
      Raw(Url("b.com", OtherPath), TitleF, {}) }

\* the filter of the loop a category's response goes through
FilterOf(category) == IF category = "ai" THEN "none" ELSE category

\* n candidates: the first c1 from the AI requests, the next up to c2 from
\* the finance request, the rest from the politics request
TrailInputs ==
    UNION { { [k \in 1..n |->
                 [article |-> f[k],
                  category |-> IF k <= c1 THEN "ai"
                               ELSE IF k <= c2 THEN "finance" ELSE "politics"]] :
              f \in [1..n -> TrailArticles] } :
            n \in 0..MaxTrail, c1 \in {0, 1}, c2 \in {1, 2} }

TrailInit ==
    /\ trail_input \in TrailInputs
    /\ trail_i = 1
    /\ trail_state = EmptyDedupState
    /\ verdicts = <<>>

TrailIdle ==
    /\ trail_input = <<>>
    /\ trail_i = 0
    /\ trail_state = EmptyDedupState
    /\ verdicts = <<>>

\* one round of "for a in ...": the branch taken, then the body of the loop
NextCandidate ==
    /\ trail_i >= 1
    /\ trail_i <= Len(trail_input)
    /\ LET c == trail_input[trail_i]
           a == c.article
           seen == IsSeen(a, trail_state.urls, trail_state.paths, trail_state.titles)
       IN  /\ verdicts' = Append(verdicts,
                 IF seen THEN "duplicate"
                 ELSE IF PassesFilter(a, FilterOf(c.category)) THEN "accepted"
                 ELSE "filtered")
           /\ trail_state' = ProcessGroup(<<a>>, c.category, FilterOf(c.category),
                                          trail_state)
    /\ trail_i' = trail_i + 1
    /\ UNCHANGED <<trail_input, notTrail>>

TrailNext == NextCandidate

----------------------------------------------------------------------------
(* Two runs calling push_to_github for the same path.  The store is the   *)
(* contents API: update_file is refused (409) when the sha it carries is  *)
(* not the current one, create_file is refused (422) when the path holds  *)
(* a document.  A blob sha names the content, so a sha is modelled by the  *)
(* document it names.  Both calls have the token; no request fails for a  *)
(* reason other than the state of the store.                              *)

Callers == {1, 2}

RaceInit ==
    /\ race_store \in {Absent} \cup PushDocuments
    /\ race_pc = [p \in Callers |-> "lookup"]
    /\ race_sha = [p \in Callers |-> Absent]
    /\ race_content \in [Callers -> PushDocuments]
    /\ race_result = [p \in Callers |-> "none"]
    /\ race_overlap = FALSE

RaceIdle ==
    /\ race_store = Absent
    /\ race_pc = [p \in Callers |-> "off"]
    /\ race_sha = [p \in Callers |-> Absent]
    /\ race_content = [p \in Callers |-> Document("json", <<>>)]
    /\ race_result = [p \in Callers |-> "none"]
    /\ race_overlap = FALSE

\* existing_file = repo.get_contents(file_path, ref="main"): the document and
\* its sha, or status 404
Lookup(p) ==
    /\ race_pc[p] = "lookup"
    /\ race_sha' = [race_sha EXCEPT ![p] = race_store]
    /\ race_pc' = [race_pc EXCEPT ![p] =
                      IF race_store # Absent THEN "update" ELSE "create"]
    /\ race_overlap' = (race_overlap
                          \/ \E q \in Callers \ {p} : race_pc[q] \in {"update", "create"})
    /\ UNCHANGED <<race_store, race_content, race_result, notRace>>

\* repo.update_file(..., sha=existing_file.sha): a refusal other than 404
\* leaves the function
UpdateFile(p) ==
    /\ race_pc[p] = "update"
    /\ IF race_store # Absent /\ race_store = race_sha[p]
       THEN /\ race_store' = race_content[p]
            /\ race_result' = [race_result EXCEPT ![p] = "ok"]
       ELSE /\ race_result' = [race_result EXCEPT ![p] = "raised"]
            /\ UNCHANGED race_store
    /\ race_pc' = [race_pc EXCEPT ![p] = "done"]
    /\ UNCHANGED <<race_sha, race_content, race_overlap, notRace>>

\* repo.create_file(...) in the handler of status 404: a refusal leaves the
\* function
CreateFile(p) ==
    /\ race_pc[p] = "create"
    /\ IF race_store = Absent
       THEN /\ race_store' = race_content[p]
            /\ race_result' = [race_result EXCEPT ![p] = "ok"]
       ELSE /\ race_result' = [race_result EXCEPT ![p] = "raised"]
            /\ UNCHANGED race_store
    /\ race_pc' = [race_pc EXCEPT ![p] = "done"]
    /\ UNCHANGED <<race_sha, race_content, race_overlap, notRace>>

RaceNext ==
    \E p \in Callers :
        \/ Lookup(p)
        \/ UpdateFile(p)
        \/ CreateFile(p)

Init == RunInit /\ AggIdle /\ ParseIdle /\ SummIdle /\ LegacyIdle /\ PushIdle
    /\ AppIdle /\ BatchIdle /\ PromptIdle /\ TriggerIdle /\ PhaseIdle /\ PairIdle
    /\ SiteIdle /\ FetchIdle /\ TrailIdle /\ RaceIdle

Spec == Init /\ [][Next]_vars

InitAgg == AggInit /\ ParseIdle /\ SummIdle /\ RunIdle /\ LegacyIdle /\ PushIdle
    /\ AppIdle /\ BatchIdle /\ PromptIdle /\ TriggerIdle /\ PhaseIdle /\ PairIdle
    /\ SiteIdle /\ FetchIdle /\ TrailIdle /\ RaceIdle

SpecAgg == InitAgg /\ [][AggNext]_vars

InitParse == ParseInit /\ AggIdle /\ SummIdle /\ RunIdle /\ LegacyIdle /\ PushIdle
    /\ AppIdle /\ BatchIdle /\ PromptIdle /\ TriggerIdle /\ PhaseIdle /\ PairIdle
    /\ SiteIdle /\ FetchIdle /\ TrailIdle /\ RaceIdle

SpecParse == InitParse /\ [][ParseNext]_vars

InitSelect == SelectInit /\ AggIdle /\ SummIdle /\ RunIdle /\ LegacyIdle /\ PushIdle
    /\ AppIdle /\ BatchIdle /\ PromptIdle /\ TriggerIdle /\ PhaseIdle /\ PairIdle
    /\ SiteIdle /\ FetchIdle /\ TrailIdle /\ RaceIdle

SpecSelect == InitSelect /\ [][ParseNext]_vars

InitSumm == SummInit /\ AggIdle /\ ParseIdle /\ RunIdle /\ LegacyIdle /\ PushIdle
    /\ AppIdle /\ BatchIdle /\ PromptIdle /\ TriggerIdle /\ PhaseIdle /\ PairIdle
    /\ SiteIdle /\ FetchIdle /\ TrailIdle /\ RaceIdle

SpecSumm == InitSumm /\ [][SummNext]_vars

InitLegacy == LegacyInit /\ AggIdle /\ ParseIdle /\ SummIdle /\ RunIdle /\ PushIdle
    /\ AppIdle /\ BatchIdle /\ PromptIdle /\ TriggerIdle /\ PhaseIdle /\ PairIdle
    /\ SiteIdle /\ FetchIdle /\ TrailIdle /\ RaceIdle

SpecLegacy == InitLegacy /\ [][LegacyNext]_vars

InitPush == PushInit /\ AggIdle /\ ParseIdle /\ SummIdle /\ RunIdle /\ LegacyIdle
    /\ AppIdle /\ BatchIdle /\ PromptIdle /\ TriggerIdle /\ PhaseIdle /\ PairIdle
    /\ SiteIdle /\ FetchIdle /\ TrailIdle /\ RaceIdle

SpecPush == InitPush /\ [][PushNext]_vars

InitApp == AppInit /\ AggIdle /\ ParseIdle /\ SummIdle /\ RunIdle /\ LegacyIdle
    /\ PushIdle /\ BatchIdle /\ PromptIdle /\ TriggerIdle /\ PhaseIdle /\ PairIdle
    /\ SiteIdle /\ FetchIdle /\ TrailIdle /\ RaceIdle

SpecApp == InitApp /\ [][AppNext]_vars

InitBatch == BatchInit /\ AggIdle /\ ParseIdle /\ SummIdle /\ RunIdle /\ LegacyIdle
    /\ PushIdle /\ AppIdle /\ PromptIdle /\ TriggerIdle /\ PhaseIdle /\ PairIdle
    /\ SiteIdle /\ FetchIdle /\ TrailIdle /\ RaceIdle

SpecBatch == InitBatch /\ [][BatchNext]_vars

InitPrompt == PromptInit /\ AggIdle /\ ParseIdle /\ SummIdle /\ RunIdle
    /\ LegacyIdle /\ PushIdle /\ AppIdle /\ BatchIdle /\ TriggerIdle /\ PhaseIdle
    /\ PairIdle /\ SiteIdle /\ FetchIdle /\ TrailIdle /\ RaceIdle

SpecPrompt == InitPrompt /\ [][PromptNext]_vars

InitTrigger == TriggerInit /\ AggIdle /\ ParseIdle /\ SummIdle /\ RunIdle
    /\ LegacyIdle /\ PushIdle /\ AppIdle /\ BatchIdle /\ PromptIdle /\ PhaseIdle
    /\ PairIdle /\ SiteIdle /\ FetchIdle /\ TrailIdle /\ RaceIdle

SpecTrigger == InitTrigger /\ [][TriggerNext]_vars

InitPhase == PhaseInit /\ AggIdle /\ ParseIdle /\ SummIdle /\ RunIdle /\ LegacyIdle
    /\ PushIdle /\ AppIdle /\ BatchIdle /\ PromptIdle /\ TriggerIdle /\ PairIdle
    /\ SiteIdle /\ FetchIdle /\ TrailIdle /\ RaceIdle

SpecPhase == InitPhase /\ [][PhaseNext]_vars

InitPair == PairInit /\ AggIdle /\ ParseIdle /\ SummIdle /\ RunIdle /\ LegacyIdle
    /\ PushIdle /\ AppIdle /\ BatchIdle /\ PromptIdle /\ TriggerIdle /\ PhaseIdle
    /\ SiteIdle /\ FetchIdle /\ TrailIdle /\ RaceIdle

SpecPair == InitPair /\ [][PairNext]_vars

InitSite == SiteInit /\ AggIdle /\ ParseIdle /\ SummIdle /\ RunIdle /\ LegacyIdle
    /\ PushIdle /\ AppIdle /\ BatchIdle /\ PromptIdle /\ TriggerIdle /\ PhaseIdle
    /\ PairIdle /\ FetchIdle /\ TrailIdle /\ RaceIdle

SpecSite == InitSite /\ [][SiteNext]_vars

InitFetch == FetchInit /\ AggIdle /\ ParseIdle /\ SummIdle /\ RunIdle /\ LegacyIdle
    /\ PushIdle /\ AppIdle /\ BatchIdle /\ PromptIdle /\ TriggerIdle /\ PhaseIdle
    /\ PairIdle /\ SiteIdle /\ TrailIdle /\ RaceIdle

SpecFetch == InitFetch /\ [][FetchNext]_vars

InitTrail == TrailInit /\ AggIdle /\ ParseIdle /\ SummIdle /\ RunIdle /\ LegacyIdle
    /\ PushIdle /\ AppIdle /\ BatchIdle /\ PromptIdle /\ TriggerIdle /\ PhaseIdle
    /\ PairIdle /\ SiteIdle /\ FetchIdle /\ RaceIdle

SpecTrail == InitTrail /\ [][TrailNext]_vars

InitRace == RaceInit /\ AggIdle /\ ParseIdle /\ SummIdle /\ RunIdle /\ LegacyIdle
    /\ PushIdle /\ AppIdle /\ BatchIdle /\ PromptIdle /\ TriggerIdle /\ PhaseIdle
    /\ PairIdle /\ SiteIdle /\ FetchIdle /\ TrailIdle

SpecRace == InitRace /\ [][RaceNext]_vars

----------------------------------------------------------------------------
(* Claims about the within-batch deduplication *)

\* C1: among the survivors of one batch no two share a URL, no two share a
\* normalized path longer than the minimum length, and no two share a
\* non-empty title prefix.
C1_SurvivorsPairwiseDistinct ==
    \A i, j \in 1..Len(all_articles) :
        i < j =>
            LET a == all_articles[i]
                b == all_articles[j]
            IN  /\ a.url # b.url
                /\ Len(UrlPath(b.url)) > MinPathLen
                      => UrlPath(a.url) # UrlPath(b.url)
                /\ SeenTitle(b.title) # <<>>
                      => SeenTitle(a.title) # SeenTitle(b.title)

\* a finished batch in which one candidate was dropped on each single signal
C1_Witness ==
    /\ aggPc = "done"
    /\ \E s \in Range(all_articles) :
          /\ \E r \in rejected :
                /\ r.url = s.url
                /\ SeenTitle(r.title) # SeenTitle(s.title)
          /\ \E r \in rejected :
                /\ r.url # s.url
                /\ UrlPath(r.url) = UrlPath(s.url)
                /\ SeenTitle(r.title) # SeenTitle(s.title)
          /\ \E r \in rejected :
                /\ r.url # s.url
                /\ UrlPath(r.url) # UrlPath(s.url)
                /\ SeenTitle(r.title) = SeenTitle(s.title)

----------------------------------------------------------------------------
(* Claims about parse_filtered_articles *)

Captured == FindUrls(gemini_response)

\* the captured strings that are the URL of some candidate
Resolvable == {c \in Range(Captured) : \E a \in Range(original_articles) : UrlEquals(a, c)}

\* C8: every returned article is an element of the input list, and a URL of
\* the response that equals no candidate's URL produces no output item.
C8_SelectionFromInputOnly ==
    parsePc = "returned" =>
        /\ \A i \in 1..Len(selected) : selected[i] \in Range(original_articles)
        /\ Len(selected) <= Cardinality(Resolvable)

\* a response naming an unknown URL and a known one
C8_Witness ==
    /\ parsePc = "returned"
    /\ \E c \in Range(Captured) : c \notin Resolvable
    /\ Len(selected) >= 1

\* position of the first occurrence of an article's URL in the response
FirstOccurrence(a) ==
    CHOOSE k \in 1..Len(Captured) :
        /\ UrlEquals(a, Captured[k])
        /\ \A m \in 1..(k - 1) : ~UrlEquals(a, Captured[m])

\* C9: the result lists the resolved candidates in the order of the first
\* occurrence of their URL in the response, each once.
C9_FirstOccurrenceOrder ==
    parsePc = "returned" =>
        /\ \A i \in 1..Len(selected) :
              \E k \in 1..Len(Captured) : UrlEquals(selected[i], Captured[k])
        /\ \A i, j \in 1..Len(selected) :
              i < j => /\ selected[i] # selected[j]
                       /\ FirstOccurrence(selected[i]) < FirstOccurrence(selected[j])
        /\ \A c \in Resolvable :
              \E i \in 1..Len(selected) : UrlEquals(selected[i], c)

\* a URL occurs, another follows, and the first occurs again
C9_Witness ==
    /\ parsePc = "returned"
    /\ Len(selected) = 2
    /\ \E k, m \in 1..Len(Captured) :
          /\ k + 1 < m
          /\ Captured[k] = Captured[m]
          /\ UrlEquals(selected[1], Captured[k])

CountCategory(candidates, cat) ==
    Cardinality({i \in 1..Len(candidates) : candidates[i].category = cat})

\* C10: the selection holds at least the minimum of every category, or all of
\* a category's candidates when there are fewer than its minimum.
C10_CategoryMinimumsMet ==
    parsePc = "returned" =>
        \A cat \in Categories :
            CountCategory(selected, cat) >=
                Minimum(CategoryMin[cat], CountCategory(original_articles, cat))

----------------------------------------------------------------------------
(* Claims about generate_summaries *)

\* C5: the first wait comes after exactly 4 requests and every later wait
\* after exactly 5 further requests.
C5_BurstThenSteadyRate ==
    \A k \in 1..Len(pauses) :
        pauses[k] = IF k = 1 THEN InitialRateLimit
                    ELSE pauses[k - 1] + SteadyRateLimit

----------------------------------------------------------------------------
(* Claims about a run *)

\* neither the URL nor the title prefix of the article is among the seen ones
OnlyPathCanMatch(a, urls, titles) ==
    /\ a.url \notin urls
    /\ ~(TitlePrefix(a.title) # <<>> /\ TitlePrefix(a.title) \in titles)

HasShortPath(a) == Len(NormalizeUrlPath(a.url)) <= MinPathLen

\* C2: neither the in-batch check nor the check against the history window
\* drops a candidate whose normalized path is shorter than the minimum length
\* on a path match alone.
C2_ShortPathNeverDropsAlone ==
    /\ \A a \in RunRawArticles :
          LET urls == {x.url : x \in Range(articles)}
              paths == {UrlPath(x.url) : x \in Range(articles)}
              titles == {SeenTitle(x.title) : x \in Range(articles)}
          IN  HasShortPath(a) /\ OnlyPathCanMatch(a, urls, titles)
                  => ~IsSeen(a, urls, paths, titles)
    /\ \A a \in removed :
          LET prev == LoadPreviousCandidates(env, store, "ok")
          IN  HasShortPath(a) => ~OnlyPathCanMatch(a, prev.urls, prev.titles)

Persisted == Range(store.today.articles)

\* C3: an article whose content fetch failed is not in the persisted batch.
C3_FailedFetchNeverPersisted ==
    run_result.success =>
        \A a \in Persisted : \A f \in fetch_failed : a.url # f.url

\* a batch was persisted in a run in which some fetch failed
C3_Witness ==
    /\ run_result.success
    /\ fetch_failed # {}
    /\ Persisted # {}

\* C4: every article of the persisted batch carries a summary with all four
\* fields.
C4_PersistedSummariesComplete ==
    run_result.success =>
        \A a \in Persisted : ~a.summary.none /\ a.summary.keys = SummaryFields

StageNames == [k \in 1..Len(stages) |-> stages[k].stage]

IsPrefix(s, t) == Len(s) <= Len(t) /\ s = SubSeq(t, 1, Len(s))

C7_EmptyStageEndsRun ==
    \A k \in 1..Len(stages) :
        stages[k].yield = 0 =>
            /\ k = Len(stages)
            /\ runPc = "done"
            /\ ~run_result.success
            /\ run_result.message = "No candidates collected"

----------------------------------------------------------------------------
(* Claims about failures of the store *)

\* C11: a store failure other than not-found, met while loading the
\* preferences, while loading the history window or while writing the batch,
\* ends the run as a reported failure; the run sends nothing after it.
C11_StoreFailureAbortsRun ==
    \A k \in 1..Len(effects) :
        (effects[k].op \in StoreReads \cup StoreWrites /\ effects[k].outcome = "error")
            => /\ k = Len(effects)
               /\ runPc = "done"
               /\ ~run_result.success

----------------------------------------------------------------------------
(* Claims about missing credentials *)

SideEffects == ServiceRequests \cup StoreWrites
                   \cup {"collect_request", "script_request"}

\* C12 in the candidate mode: a run that lacks a required credential sends no
\* source, ranking or summary request and writes nothing, and ends in failure
CandidateModeAbortsFirst ==
    (~env.GEMINI_API_KEY \/ ~env.GNEWS_API_KEY \/ ~env.GITHUB_TOKEN) =>
        /\ \A k \in 1..Len(effects) : effects[k].op \notin SideEffects
        /\ runPc = "done" => ~run_result.success

\* C12: a run that lacks a required credential reports failure, and has sent
\* no collection, ranking, summary or script request and no store write.
C12_MissingCredentialAbortsFirst ==
    (~legacy_env.GEMINI_API_KEY \/ ~legacy_env.GITHUB_TOKEN) =>
        /\ \A k \in 1..Len(legacy_effects) : legacy_effects[k].op \notin SideEffects
        /\ legacyPc = "done" => ~legacy_result.success

----------------------------------------------------------------------------
(* Claims about what a run reads from and writes to the store *)

PreferenceReads == {k \in 1..Len(effects) : effects[k].op = "load_preferences"}

\* writes the store accepted, to the document under path
WritesTo(path) ==
    {k \in 1..Len(effects) :
        /\ effects[k].op \in StoreWrites
        /\ effects[k].outcome = "ok"
        /\ effects[k].path = path}

WriteCalls == {k \in 1..Len(push_calls) : push_calls[k].op \in StoreWrites}

\* C14: a push that succeeds makes exactly one write: an update carrying the
\* version it just read when the document exists, a create when the lookup
\* reports not-found; a lookup that fails otherwise makes no write and raises.
C14_PushWritesOnce ==
    pushPc = "done" =>
        /\ ~push_raised =>
              /\ Len(push_calls) = 2
              /\ push_calls[1].op = "get_contents"
              /\ WriteCalls = {2}
              /\ push_calls[2].outcome = "ok"
              /\ push_document = push_content
              /\ IF push_existing # Absent
                 THEN /\ push_calls[1].outcome = "ok"
                      /\ push_calls[2].op = "update_file"
                      /\ push_calls[2].sha = push_existing
                 ELSE /\ push_calls[1].outcome = "not_found"
                      /\ push_calls[2].op = "create_file"
        /\ (push_calls # <<>> /\ push_calls[1].outcome = "error") =>
              /\ WriteCalls = {}
              /\ push_raised
              /\ push_document = push_existing

\* a push that updated an existing document with other content
C14_Witness ==
    /\ pushPc = "done"
    /\ ~push_raised
    /\ push_existing # Absent
    /\ push_existing # push_content
    /\ push_document = push_content

----------------------------------------------------------------------------
(* Claims about the trigger *)

RunsInProgress == {t \in 1..Len(threads) : threads[t] = "running"}

----------------------------------------------------------------------------
(* Claims about failures of a source *)

SourceEvents == {k \in 1..Len(effects) : effects[k].op = "gnews_request"}

RECURSIVE Contributed(_)
Contributed(K) ==
    IF K = {} THEN 0
    ELSE LET k == CHOOSE x \in K : TRUE
         IN  effects[k].n + Contributed(K \ {k})

\* C16: a source request that fails contributes no item, and the aggregation
\* returns what the other sources contributed: one failing source does not
\* abort it.
C16_SourceFailureIsolated ==
    Len(stages) >= 1 =>
        /\ \A k \in SourceEvents : effects[k].outcome # "ok" => effects[k].n = 0
        /\ stages[1].yield = Contributed(SourceEvents)

\* the same for failures that are request errors (timeouts, HTTP errors)
RequestErrorIsolated ==
    (\A k \in SourceEvents : effects[k].outcome # "other_error")
        => C16_SourceFailureIsolated

----------------------------------------------------------------------------
(* Claims about the persisted batch *)

\* C17: the URLs of the articles of a batch the run persisted are pairwise
\* distinct.
C17_PersistedUrlsDistinct ==
    run_result.success =>
        \A i, j \in 1..Len(store.today.articles) :
            store.today.articles[i].url = store.today.articles[j].url => i = j

\* a persisted batch of two articles
C17_Witness ==
    /\ run_result.success
    /\ Len(store.today.articles) >= 2


\* C18: once the batch of a date is persisted, no run changes its items.
C18_PersistedBatchImmutable ==
    [][store.today # Absent => store'.today.articles = store.today.articles]_vars

----------------------------------------------------------------------------
(* Claims about one batch of raw candidates *)

\* positions of the batch that carry a URL an earlier position carries
UrlRepeats ==
    {k \in 1..Len(raw_batch) : \E j \in 1..(k - 1) : raw_batch[j].url = raw_batch[k].url}

\* positions that carry a path, on a new URL, an earlier position carries
PathRepeats ==
    {k \in 1..Len(raw_batch) :
        /\ k \notin UrlRepeats
        /\ \E j \in 1..(k - 1) :
              UrlPath(raw_batch[j].url) = UrlPath(raw_batch[k].url)}

\* C19: of 30 raw candidates of which 3 carry one URL and 2 carry one path
\* (longer than the minimum) on different domains, with no other signal
\* matching, exactly 27 survive.
C19_ThirtyLeaveTwentySeven ==
    (batchPc = "done" /\ Len(raw_batch) = 30
        /\ Cardinality(UrlRepeats) = 2 /\ Cardinality(PathRepeats) = 1)
        => Len(survivors) = 27

\* such a batch has been collected
C19_Witness ==
    /\ batchPc = "done"
    /\ Len(raw_batch) = 30
    /\ Cardinality(UrlRepeats) = 2
    /\ Cardinality(PathRepeats) = 1
    /\ \E j, k \in 1..Len(raw_batch) :
          /\ j < k
          /\ raw_batch[j].url.dom # raw_batch[k].url.dom
          /\ raw_batch[j].url.path = raw_batch[k].url.path
          /\ Len(raw_batch[k].url.path) > MinPathLen
    /\ survivors # <<>>

----------------------------------------------------------------------------
(* Claims about the ranking request *)

\* C20: at learning phase 0 the ranking request carries no boosted or
\* suppressed keywords, no preferred sources, no interest profile, no learned
\* category distribution and no serendipity reservation: only the fixed
\* category targets.
C20_PhaseZeroCarriesNoSignal ==
    (promptPc = "done" /\ prompt_preferences.learning_phase = 0) =>
        /\ prompt.boost_section = {}
        /\ prompt.suppress_section = {}
        /\ prompt.source_section = {}
        /\ prompt.interest_profile_section = {}
        /\ ~prompt.learned_distribution
        /\ prompt.category_section = FixedCategoryLines
        /\ ~prompt.serendipity_section

\* what the code does gate by phase: sources below phase 2, and the
\* serendipity reservation below phase 3, are left out
PhaseGatesHold ==
    promptPc = "done" =>
        /\ prompt_preferences.learning_phase < SourcePhase => prompt.source_section = {}
        /\ prompt_preferences.learning_phase < SerendipityPhase
              => ~prompt.serendipity_section

----------------------------------------------------------------------------
(* Claims about the entry points *)

FinishedThreads == {t \in 1..Len(threads) : threads[t] = "finished"}

\* what main and scheduled_main do with the mode and with the run's report
DispatchAndAnswer ==
    last_trigger.entry # "none" =>
        /\ last_trigger.runs =
              << IF last_trigger.mode = "legacy" THEN "run_news_bot"
                 ELSE "run_candidate_mode" >>
        /\ last_trigger.entry = "main" =>
              /\ last_trigger.answer.code = 200 <=> last_trigger.reported.success
              /\ last_trigger.answer.code = 500 <=> ~last_trigger.reported.success
        /\ last_trigger.entry = "scheduled_main" =>
              (last_trigger.raised <=> ~last_trigger.reported.success)

\* C21: each trigger invocation starts exactly one pipeline run, the legacy
\* one when the mode is 'legacy' and the personalized one for every other
\* value; main answers 200 exactly when the run reported success and 500
\* otherwise; scheduled_main raises exactly when the run reported failure.
\* Every invocation that has ended (of main, of scheduled_main, or of the
\* thread the /run endpoint started) has started one run.
C21_OneRunPerTrigger ==
    /\ runs_started = trigger_count + Cardinality(FinishedThreads)
    /\ DispatchAndAnswer

\* the two entry points of main.py alone start one run per invocation
MainEntryPointsConform ==
    /\ runs_started = trigger_count
    /\ DispatchAndAnswer

----------------------------------------------------------------------------
(* Claims about the learning phase *)

\* C22: the learning phase is a function of the length of the selection
\* history alone: 0 below 3 selections, 1 from 3 to 6, 2 from 7 to 13 and 3
\* from 14 on; it never decreases as the history grows.
C22_PhaseIsStepFunction ==
    /\ [](\A n \in 0..MaxHistory :
            Len(selection_history) = n =>
               learning_phase = CASE n < 3 -> 0
                                  [] n >= 3 /\ n <= 6 -> 1
                                  [] n >= 7 /\ n <= 13 -> 2
                                  [] n >= 14 -> 3)
    /\ [][learning_phase' >= learning_phase]_vars

\* a history that has reached the last step
C22_Witness ==
    /\ Len(selection_history) = 14
    /\ learning_phase = 3

----------------------------------------------------------------------------
(* Claims about the GNews requests of one aggregation *)

RequestsFor(category) ==
    Cardinality({k \in 1..Len(gnews_requests) : gnews_requests[k] = category})

\* C23: one call of collect_multi_category_articles issues at most 4 GNews
\* requests, at most 2 for AI, 1 for finance and 1 for politics, whatever the
\* preferences are.
C23_AtMostFourRequests ==
    /\ Len(gnews_requests) <= 4
    /\ RequestsFor("ai") <= 2
    /\ RequestsFor("finance") <= 1
    /\ RequestsFor("politics") <= 1

\* a call that issued all four requests
C23_Witness ==
    /\ aggPc = "done"
    /\ gnews_requests = <<"ai", "ai", "finance", "politics">>

----------------------------------------------------------------------------
(* Claims about the rate of the generative requests *)

\* generative requests issued since the last pause, or since the start of the
\* run when there was no pause yet: summ_i - 1 summary requests were issued
SinceLastPause ==
    IF pauses = <<>> THEN RankingRequests + (summ_i - 1)
    ELSE (summ_i - 1) - pauses[Len(pauses)]

\* C24: at most 5 generative requests (the ranking request and the summary
\* requests, failed ones included) are issued before the first pause and
\* between any two consecutive pauses.
C24_AtMostFivePerWindow ==
    /\ SinceLastPause <= 5
    /\ pauses # <<>> => RankingRequests + pauses[1] <= 5
    /\ \A k \in 2..Len(pauses) : pauses[k] - pauses[k - 1] <= 5

\* three pauses, and a summary request that failed in the first window and
\* in the last one
C24_Witness ==
    /\ summPc = "returned"
    /\ Len(pauses) = 3
    /\ Len(results) <= Len(summ_articles) - 2
    /\ \A a \in Range(results) : a # summ_articles[1] /\ a # summ_articles[Len(summ_articles)]

\* the ranking request of a run precedes its summary requests and is the
\* only one
OneRankingRequest ==
    \A k \in 1..Len(effects) :
        effects[k].op = "summary_request" =>
            Cardinality({j \in 1..k : effects[j].op = "rank_request"}) = RankingRequests

----------------------------------------------------------------------------
(* Claims about URL path normalization *)

SamePathOtherQuery(a, b) ==
    /\ a.url.path = b.url.path
    /\ a.url.query # b.url.query

\* C25: the normalized path keeps the query string, so two URLs with the same
\* path and different query strings are not path-duplicates of each other:
\* neither deduplicator drops the second of them (their titles differ).
C25_QueryDistinguishesPaths ==
    (pairPc = "done" /\ SamePathOtherQuery(first_article, second_article)) =>
        /\ Len(batch_survivors) = 2
        /\ ~history_duplicate

\* what the code does: the query plays no part in the path signal
QueryIgnored ==
    (pairPc = "done" /\ first_article.url.path = second_article.url.path) =>
        /\ Len(batch_survivors) = 1
        /\ history_duplicate

----------------------------------------------------------------------------
(* Claims about collect_site_articles *)

\* C26: collect_site_articles never returns more than total_articles items,
\* whatever the category distribution and the value of total_articles are.
C26_AtMostTotalArticles ==
    sitePc = "done" => Len(site_result) <= site_total

----------------------------------------------------------------------------
(* Claims about the default preferences *)

\* C27: with the default preferences (an empty category distribution) the
\* aggregator still queries the sources of every category, so that a run
\* whose sources return items has candidates.
C27_DefaultStateQueriesSources ==
    (aggPc = "done" /\ preferences = DefaultPreferences) =>
        {"ai", "finance", "politics"} \subseteq Range(gnews_requests)

\* what the code does in a run with the default preferences: the
\* aggregation issues no request and the run ends as empty
DefaultRunEndsEmpty ==
    \A k \in 1..Len(stages) :
        (stages[k].stage = "aggregate" /\ run_preferences = DefaultPreferences) =>
            /\ stages[k].yield = 0
            /\ \A j \in 1..Len(effects) : effects[j].op # "gnews_request"
            /\ run_result = Result(FALSE, "No candidates collected")

----------------------------------------------------------------------------
(* Claims about the parallel content fetch *)

Fetched(i) == ~IsFetchFailure(tasks[i].outcome)

\* C28: fetch_article_contents returns exactly the input articles whose fetch
\* succeeded, each once and with its content set, whatever the order in which
\* the workers complete (the returned set is decided by the fetches alone),
\* and no article is processed by more than one worker.
C28_FetchedOnceEach ==
    /\ \A i \in 1..Len(tasks) : Cardinality(tasks[i].ran_on) <= 1
    /\ fetchPc = "returned" =>
          /\ \A i \in 1..Len(fetch_input) :
                Cardinality({k \in 1..Len(fetch_results) :
                                fetch_results[k].url = fetch_input[i].url})
                   = IF Fetched(i) THEN 1 ELSE 0
          /\ \A k \in 1..Len(fetch_results) :
                /\ \E i \in 1..Len(fetch_input) :
                      fetch_results[k] =
                         fetch_input[i] @@ [content |-> fetch_results[k].content]
                /\ fetch_results[k].content >= MinContentLen

\* a call in which a fetch failed and two fetched articles were collected in
\* the reverse of the input order
C28_Witness ==
    /\ fetchPc = "returned"
    /\ Len(fetch_input) = 3
    /\ \E i \in 1..Len(tasks) : ~Fetched(i)
    /\ \E k, l \in 1..Len(fetch_results) :
          /\ k < l
          /\ fetch_results[k].url = fetch_input[3].url
          /\ fetch_results[l].url = fetch_input[1].url

----------------------------------------------------------------------------
(* Claims about the incremental within-batch deduplication *)

\* the positions of the candidates seen so far that were accepted, ascending
AcceptedPositions ==
    SelectSeq([k \in 1..Len(verdicts) |-> k], LAMBDA k : verdicts[k] = "accepted")

\* a and b agree on a signal the deduplicator compares
MatchOnSignal(a, b) ==
    \/ a.url = b.url
    \/ /\ Len(UrlPath(a.url)) > MinPathLen
       /\ UrlPath(a.url) = UrlPath(b.url)
    \/ /\ SeenTitle(a.title) # <<>>
       /\ SeenTitle(a.title) = SeenTitle(b.title)

\* C29: a candidate is dropped as a duplicate only if it matches, on at least
\* one signal, a candidate accepted earlier in the batch; the survivors are
\* the accepted candidates in their input order; a rejected candidate (a
\* duplicate, or one the keyword filter of its category refused) leaves the
\* seen-sets alone, which hold the signals of the accepted candidates only.
C29_DropsOnlyOnAcceptedMatch ==
    /\ \A k \in 1..Len(verdicts) :
          verdicts[k] = "duplicate" =>
             \E j \in 1..(k - 1) :
                /\ verdicts[j] = "accepted"
                /\ MatchOnSignal(trail_input[k].article, trail_input[j].article)
    /\ Len(trail_state.all) = Len(AcceptedPositions)
    /\ \A k \in 1..Len(AcceptedPositions) :
          LET a == trail_input[AcceptedPositions[k]].article
          IN  /\ trail_state.all[k].url = a.url
              /\ trail_state.all[k].title = a.title
    /\ trail_state.urls = {s.url : s \in Range(trail_state.all)}
    /\ trail_state.paths = {UrlPath(s.url) : s \in Range(trail_state.all)}
    /\ trail_state.titles =
          {SeenTitle(s.title) : s \in Range(trail_state.all)} \ {<<>>}

\* a candidate was dropped as a duplicate, and the third candidate, which
\* matches a rejected one, was accepted
C29_Witness ==
    /\ Len(verdicts) = 3
    /\ \E k \in 1..2 :
          /\ verdicts[k] # "accepted"
          /\ verdicts[3] = "accepted"
          /\ MatchOnSignal(trail_input[3].article, trail_input[k].article)
    /\ \E k \in 1..3 : verdicts[k] = "duplicate"

----------------------------------------------------------------------------
(* Claims about concurrent pushes *)

BothDone == \A p \in Callers : race_pc[p] = "done"

\* C30: when two runs call push_to_github for the same path concurrently,
\* every interleaving of their lookups and writes ends with both calls
\* returning success and the store holding the content of one of them.
C30_ConcurrentPushesSucceed ==
    BothDone =>
        /\ \A p \in Callers : race_result[p] = "ok"
        /\ \E p \in Callers : race_store = race_content[p]

\* calls that do not overlap both succeed, and the store holds the content
\* of one of them
PushesInTurnSucceed ==
    (BothDone /\ ~race_overlap) =>
        /\ \A p \in Callers : race_result[p] = "ok"
        /\ \E p \in Callers : race_store = race_content[p]

====
